---- MODULE Spec2Model ----
(***************************************************************************)
(* libaspect2: the eMMC SPI reader (src/src/spi/emmc_reader.rs) driving a   *)
(* register-oriented transport (src/src/spi/backend/mod.rs).                *)
(*                                                                         *)
(* The driver is single threaded and blocking.  One action of the model is *)
(* one transport primitive issued by the driver together with the local    *)
(* computation that follows it up to the next primitive.  The transport    *)
(* and the device behind it are the environment: every primitive may fail  *)
(* with a transport error and every register read returns a value chosen   *)
(* by the device.  The log records what the transport saw during the       *)
(* current public call.                                                    *)
(***************************************************************************)
EXTENDS Integers, Sequences, FiniteSets

VARIABLES
    initialized,   \* EmmcReader.initialized
    buffer,        \* the caller's 512-byte page buffer
    op,            \* the public method called last ("new" after construction)
    pc,            \* position of the driver inside that call, "idle" between calls
    idx,           \* index into the sanity values / the script being replayed
    iter,          \* iterations of the memory-training loop started so far
    current_val,   \* Option<u32> of the memory-training loop
    poll,          \* frame of the running poll_for_value
    args,          \* arguments of the call as a record
    before,        \* the caller's buffer when the running call started
    log,           \* transport primitives issued during the current call
    result,        \* what the last call returned
    backend        \* EmmcReader.backend, the transport the reader owns

vars == <<initialized, buffer, op, pc, idx, iter, current_val, poll,
          args, before, log, result, backend>>

----------------------------------------------------------------------------
(* 32-bit register values.  TLC integers are signed 32-bit, so a u32 is    *)
(* kept as its two 16-bit halves; only equality is ever used on them.      *)
U32(hi, lo) == <<hi, lo>>

NoVal == <<>>

(* model bounds *)
MaxTraining == 3

(* commands.rs: status and transfer_config *)
DATA_READY        == U32(0, \h0020)
CMD_ACCEPTED      == U32(0, \h0021)
TRANSFER_COMPLETE == U32(0, \h0002)
STATUS_CLEAR      == U32(\hFFFF, \hFFFF)
ERASE_TRANSFER_CONFIG_AS_READ == U32(\h113A, \h0010)
ERASE_TRANSFER_CONFIG == U32(0, 0)
WRITE_TRANSFER_CONFIG_NONZERO == U32(0, \h0010)
WRITE_TRANSFER_CONFIG == U32(0, 0)
PAGE_READ_TYPO    == U32(\h113A, \h0000)
PAGE_READ         == U32(\h113A, \h0010)

(* commands.rs: Register, the 8-bit address of each variant (`as u8`) *)
RegisterNames ==
    { "Reg_01", "Argument", "CommandAndTransferMode", "Response0And1",
      "Response2And3", "Response4And5", "Response6And7", "DataFifo",
      "PresentState", "Reg_0A", "Command", "InterruptStatus", "Config1",
      "Config2", "Reg_0F", "InitCommand", "XipOutputDelay" }

address(r) ==
    CASE r = "Reg_01" -> \h01
      [] r = "Argument" -> \h02
      [] r = "CommandAndTransferMode" -> \h03
      [] r = "Response0And1" -> \h04
      [] r = "Response2And3" -> \h05
      [] r = "Response4And5" -> \h06
      [] r = "Response6And7" -> \h07
      [] r = "DataFifo" -> \h08
      [] r = "PresentState" -> \h09
      [] r = "Reg_0A" -> \h0A
      [] r = "Command" -> \h0B
      [] r = "InterruptStatus" -> \h0C
      [] r = "Config1" -> \h0D
      [] r = "Config2" -> \h0E
      [] r = "Reg_0F" -> \h0F
      [] r = "InitCommand" -> \h44
      [] r = "XipOutputDelay" -> \h88

(* emmc_reader.rs *)
INIT_COMMAND_VALUE == U32(0, \h0003)
TEST_VAL_1 == U32(\h1234, \h5678)
TEST_VAL_2 == U32(\hEDCB, \hA987)
SanityValuesOnce == <<TEST_VAL_1, TEST_VAL_2>>
SanityValues == <<TEST_VAL_1, TEST_VAL_2, TEST_VAL_1, TEST_VAL_2>>
MAX_POLLS_11 == 10 + 1
MAX_POLLS_9 == 10 - 1
MAX_POLLS == 10
PAGE_SIZE == 512
TRAIN_FIRST == U32(\h00FF, \h8080)
TRAIN_LAST  == U32(\hC0FF, \h8080)

(* script steps of init_sequence: a write, or a read with its assert_eq! *)
W(reg, hi, lo) == [k |-> "W", reg |-> reg, val |-> U32(hi, lo)]
R(reg, hi, lo) == [k |-> "R", reg |-> reg, val |-> U32(hi, lo)]

InitScriptA == <<
    R("Command", 0, 0),
    W("Command", 0, \h1),
    R("Command", 0, \h3),
    R("Command", 0, \h3),
    W("Command", 0, \h3),
    W("Command", 0, \h43),
    W("Command", 0, \h47),
    R("Config1", 0, 0),
    W("Config1", \h1FFF, \h0033),
    R("Config2", 0, 0),
    W("Config2", \h17FF, \h0033),
    W("Argument", 0, 0),
    W("CommandAndTransferMode", 0, 0),
    R("InterruptStatus", 0, \h1),
    W("InterruptStatus", 0, \h1),
    R("Command", 0, \h47),
    W("Command", \hE, \h0047) >>

(* one iteration of the memory-training loop; the last read is compared   *)
(* against current_val instead of a fixed value                           *)
(* a training loop that leaves the status unacknowledged *)
TrainingBodyNoAck == <<
    W("Argument", \h4000, \h0080),
    W("CommandAndTransferMode", \h0102, 0),
    R("InterruptStatus", 0, 0),
    R("InterruptStatus", 0, \h1),
    R("Response0And1", \h00FF, \h8080) >>

TrainingBody == <<
    W("Argument", \h4000, \h0080),
    W("CommandAndTransferMode", \h0102, 0),
    R("InterruptStatus", 0, 0),
    R("InterruptStatus", 0, \h1),
    W("InterruptStatus", 0, \h1),
    R("Response0And1", \h00FF, \h8080) >>

InitScriptB == <<
    W("Argument", 0, 0),
    W("CommandAndTransferMode", \h0209, 0),
    R("InterruptStatus", 0, 0),
    R("InterruptStatus", 0, 0),
    R("InterruptStatus", 0, \h1),
    W("InterruptStatus", 0, \h1),
    R("Response0And1", \h0F4E, \h59BF),
    R("Response2And3", \h3932, \h009D),
    R("Response4And5", \h3030, \h3847),
    R("Response6And7", \h0011, \h0100),
    W("Argument", \hA, 0),
    W("CommandAndTransferMode", \h031A, 0),
    R("InterruptStatus", 0, 0),
    R("InterruptStatus", 0, \h1),
    W("InterruptStatus", 0, \h1),
    W("Argument", \hA, 0),
    W("CommandAndTransferMode", \h071A, 0),
    R("InterruptStatus", 0, 0),
    R("InterruptStatus", 0, \h1),
    W("InterruptStatus", 0, \h1),
    W("Argument", \h03B7, \h0200),
    W("CommandAndTransferMode", \h061B, 0),
    R("InterruptStatus", 0, 0),
    R("InterruptStatus", 0, \h3),
    W("InterruptStatus", 0, \h1),
    R("InterruptStatus", 0, \h2),
    W("InterruptStatus", 0, \h2),
    R("Reg_0A", \h0080, 0),
    W("Reg_0A", \h0080, \h0020),
    W("Argument", 0, \h0200),
    W("CommandAndTransferMode", \h101A, 0),
    R("InterruptStatus", 0, 0),
    R("InterruptStatus", 0, \h1),
    W("InterruptStatus", 0, \h1),
    W("Argument", \h03B9, \h0100),
    W("CommandAndTransferMode", \h061B, 0),
    R("InterruptStatus", 0, 0),
    R("InterruptStatus", 0, \h3),
    W("InterruptStatus", 0, \h1),
    R("InterruptStatus", 0, \h2),
    W("InterruptStatus", 0, \h2),
    R("Reg_0F", 0, 0),
    W("Reg_0F", \h8, 0),
    W("Reg_0A", \h0080, \h0024),
    W("XipOutputDelay", \h7, \h0001),
    R("XipOutputDelay", \h7, \h0001),
    R("Command", \hE, \h0047),
    W("Command", \hE, \h0047),
    R("Command", \hE, \h0047),
    W("Command", \hE, \h0043),
    W("Command", \hE, \h0203),
    W("Command", \hE, \h0207),
    W("Reg_01", \h1, \h0200) >>

----------------------------------------------------------------------------
(* The environment: transport errors, device answers, page contents.       *)

TransportErrorsWithTimeout == {"FtStatus", "Timeout"}
TransportErrors == {"FtStatus", "DeviceTimeout"}

(* a value the device may return in place of the awaited one *)
Stray(v) == IF v = DATA_READY THEN CMD_ACCEPTED ELSE DATA_READY

(* what a register read may return while the driver waits for `expected` *)
DeviceVals(expected) ==
    {expected, Stray(expected)}

(* page contents the device may deliver *)
PageOf(seed) == [i \in 1..PAGE_SIZE |-> (seed * i) % 256]
ZeroPage == PageOf(0)
Pages == {PageOf(0), PageOf(7)}

(* inputs of the public calls *)
DirectRegisters == {"Argument", "InterruptStatus", "DataFifo"}
DirectValues == {U32(\hDEAD, \hBEEF), U32(\h1234, \h5678)}
PageNumbers == {U32(0, 0), U32(\hFFFF, \hFE00)}
PollCalls == { <<"InterruptStatus", CMD_ACCEPTED>>,
               <<"PresentState", TRANSFER_COMPLETE>> }

(* results *)
Ok == [kind |-> "Ok"]
OkValue(v) == [kind |-> "Ok", value |-> v]
Err(kind) == [kind |-> kind]
Timeout == Err("Timeout")
Panic == [kind |-> "panic"]
Running == [kind |-> "running"]
SanityCheckFailedSwapped(e, a) == [kind |-> "SanityCheckFailed", expected |-> a, actual |-> e]
SanityCheckFailed(e, a) == [kind |-> "SanityCheckFailed", expected |-> e, actual |-> a]

(* log entries *)
Entry(kind, reg, val, res) == [kind |-> kind, reg |-> reg, val |-> val, res |-> res]
WriteOp(reg, val) == Entry("write", reg, val, "Ok")
ReadOp(reg, val)  == Entry("read", reg, val, "Ok")

NoArgs == [none |-> TRUE]

(* The two transports.  The device transport is the environment described  *)
(* above.  MockBackend (emmc_reader.rs tests) keeps a map from register     *)
(* address to the last value written, reads 0 for an unwritten register,   *)
(* fills read_data buffers with 0 and never fails.                         *)
DeviceBackend == [kind |-> "device"]
MockBackendNew == [kind |-> "mock", registers |-> {}, initialized |-> FALSE]
IsMock == backend.kind = "mock"

(* self.registers.insert(register.address(), data) *)
MockInsertNothing(reg, data) == backend
MockInsert(reg, data) ==
    [backend EXCEPT !.registers =
        {p \in @ : p[1] # address(reg)} \cup {<<address(reg), data>>}]

(* *self.registers.get(&register.address()).unwrap_or(&0) *)
MockGet(reg) ==
    LET hit == {p \in backend.registers : p[1] = address(reg)}
    IN  IF hit = {} THEN U32(0, 0) ELSE (CHOOSE p \in hit : TRUE)[2]

(* values a read of reg may return while the driver waits for `expected` *)
ReadVals(reg, expected) ==
    IF IsMock THEN {MockGet(reg)} ELSE DeviceVals(expected)

(* pages a read_data may deliver *)
DataVals == IF IsMock THEN {ZeroPage} ELSE Pages

(* a successful write_register / read_register / initialize *)
Wrote(reg, val) ==
    /\ log' = Append(log, WriteOp(reg, val))
    /\ backend' = IF IsMock THEN MockInsert(reg, val) ELSE backend
DidRead(reg, val) ==
    /\ log' = Append(log, ReadOp(reg, val))
    /\ backend' = backend
DidInitialize ==
    /\ log' = Append(log, Entry("initialize", "-", NoVal, "Ok"))
    /\ backend' = IF IsMock THEN [backend EXCEPT !.initialized = TRUE] ELSE backend
NoPoll == [register |-> "-", value |-> NoVal, count |-> 0, ret |-> "-"]

----------------------------------------------------------------------------
Init ==
    /\ initialized = FALSE
    /\ buffer = ZeroPage
    /\ op = "new"
    /\ pc = "idle"
    /\ idx = 0
    /\ iter = 0
    /\ current_val = NoVal
    /\ poll = NoPoll
    /\ args = NoArgs
    /\ before = ZeroPage
    /\ log = <<>>
    /\ result = [kind |-> "none"]
    /\ backend = DeviceBackend

(* a public method may be called when no call is running and no earlier    *)
(* call has panicked                                                       *)
CanCall == pc = "idle" /\ result.kind # "panic"

(* the running call returns r *)
Return(r) ==
    /\ pc' = "idle"
    /\ result' = r
    /\ idx' = 0
    /\ iter' = 0
    /\ current_val' = NoVal
    /\ poll' = NoPoll

(* the running call moves on to label l *)
Goto(l) == pc' = l /\ result' = result

(* a driver that re-issues a failed primitive once before giving up *)
FailWithRetry(kind, reg, val) ==
    /\ ~IsMock
    /\ backend' = backend
    /\ \E e \in TransportErrors :
          /\ log' = Append(Append(log, Entry(kind, reg, val, e)), Entry(kind, reg, val, e))
          /\ Return(Err(e))

(* a transport primitive fails: the `?` returns the error to the caller *)
FailWith(kind, reg, val) ==
    /\ ~IsMock
    /\ backend' = backend
    /\ \E e \in TransportErrors :
          /\ log' = Append(log, Entry(kind, reg, val, e))
          /\ Return(Err(e))

----------------------------------------------------------------------------
(* EmmcReader::init                                                        *)

(* the order of the steps of init(): label -> the label that follows it *)
InitOrderSwapped(l) ==
    CASE l = "initialize"   -> "sanity_write"
      [] l = "sanity_check" -> "init_command"
      [] l = "init_command" -> "seq_a"
      [] l = "init_sequence" -> "set_initialized"
InitOrder(l) ==
    CASE l = "initialize"   -> "init_command"
      [] l = "init_command" -> "sanity_write"
      [] l = "sanity_check" -> "seq_a"
      [] l = "init_sequence" -> "set_initialized"

(* first index used at a label *)
Enter(l) ==
    /\ pc' = l
    /\ result' = result
    /\ idx' = IF l \in {"sanity_write", "seq_a", "training", "seq_b"} THEN 1 ELSE 0
    /\ iter' = IF l = "training" THEN 1 ELSE 0
    /\ current_val' = NoVal
    /\ poll' = NoPoll

(* if self.initialized { return Ok(()); } *)
NeverSkips == FALSE
AlreadyInitialized == initialized

CallInit ==
    /\ CanCall
    /\ op' = "init"
    /\ log' = <<>>
    /\ before' = buffer
    /\ args' = NoArgs
    /\ IF AlreadyInitialized
       THEN Return(Ok)
       ELSE /\ pc' = "initialize"
            /\ result' = Running
            /\ UNCHANGED <<idx, iter, current_val, poll>>
    /\ UNCHANGED <<initialized, buffer, backend>>

(* self.backend.initialize()? *)
InitInitialize ==
    /\ pc = "initialize"
    /\ \/ /\ DidInitialize
          /\ Enter(InitOrder("initialize"))
       \/ FailWith("initialize", "-", NoVal)
    /\ UNCHANGED <<initialized, buffer, op, args, before>>

(* self.backend.write_register(Register::InitCommand, 0x00000003)? *)
InitCommandWrite ==
    /\ pc = "init_command"
    /\ \/ /\ Wrote("InitCommand", INIT_COMMAND_VALUE)
          /\ Enter(InitOrder("init_command"))
       \/ FailWith("write", "InitCommand", INIT_COMMAND_VALUE)
    /\ UNCHANGED <<initialized, buffer, op, args, before>>

(* sanity_check: the write of one round trip *)
SanityWrite ==
    /\ pc = "sanity_write"
    /\ \/ /\ Wrote("Argument", SanityValues[idx])
          /\ Goto("sanity_read")
          /\ UNCHANGED <<idx, iter, current_val, poll>>
       \/ FailWith("write", "Argument", SanityValues[idx])
    /\ UNCHANGED <<initialized, buffer, op, args, before>>

(* response1 != test_value *)
SanityAcceptAll(test_value, response1) == FALSE
SanityMismatch(test_value, response1) == response1 # test_value

(* sanity_check: the read of one round trip and the comparison *)
SanityRead ==
    /\ pc = "sanity_read"
    /\ \/ \E response1 \in ReadVals("Argument", SanityValues[idx]) :
            /\ DidRead("Argument", response1)
            /\ IF SanityMismatch(SanityValues[idx], response1)
               THEN Return(SanityCheckFailed(SanityValues[idx], response1))
               ELSE IF idx < Len(SanityValues)
                    THEN /\ Goto("sanity_write")
                         /\ idx' = idx + 1
                         /\ UNCHANGED <<iter, current_val, poll>>
                    ELSE Enter(InitOrder("sanity_check"))
       \/ FailWith("read", "Argument", NoVal)
    /\ UNCHANGED <<initialized, buffer, op, args, before>>

(* a script whose reads go on whatever value they return *)
ScriptStepLenient(script, next) ==
    LET step == script[idx]
        advance == IF idx < Len(script)
                   THEN /\ Goto(pc)
                        /\ idx' = idx + 1
                        /\ UNCHANGED <<iter, current_val, poll>>
                   ELSE Enter(next)
    IN  IF step.k = "W"
        THEN \/ /\ Wrote(step.reg, step.val)
                /\ advance
             \/ FailWith("write", step.reg, step.val)
        ELSE \/ \E res \in ReadVals(step.reg, step.val) :
                  /\ DidRead(step.reg, res)
                  /\ advance
             \/ FailWith("read", step.reg, NoVal)

(* one step of a fixed part of init_sequence: a write, or a read followed  *)
(* by assert_eq!, which panics on a mismatch                               *)
ScriptStep(script, next) ==
    LET step == script[idx]
        advance == IF idx < Len(script)
                   THEN /\ Goto(pc)
                        /\ idx' = idx + 1
                        /\ UNCHANGED <<iter, current_val, poll>>
                   ELSE Enter(next)
    IN  IF step.k = "W"
        THEN \/ /\ Wrote(step.reg, step.val)
                /\ advance
             \/ FailWith("write", step.reg, step.val)
        ELSE \/ \E res \in ReadVals(step.reg, step.val) :
                  /\ DidRead(step.reg, res)
                  /\ IF res = step.val THEN advance ELSE Return(Panic)
             \/ FailWith("read", step.reg, NoVal)

InitSequenceA ==
    /\ pc = "seq_a"
    /\ ScriptStep(InitScriptA, "training")
    /\ UNCHANGED <<initialized, buffer, op, args, before>>

(* a loop that leaves as soon as the terminal sentinel is read *)
TrainingOutcomeEager(cv, res) ==
    IF res = TRAIN_LAST THEN "break"
    ELSE IF res = TRAIN_FIRST THEN "again" ELSE "panic"

(* lines 68-80: what the loop does with the value read from Response0And1 *)
TrainingOutcome(cv, res) ==
    IF cv = NoVal
    THEN IF res # TRAIN_FIRST THEN "panic" ELSE "again"
    ELSE IF cv # res
         THEN IF res # TRAIN_LAST THEN "panic" ELSE "break"
         ELSE "again"

(* what the device may answer to the loop's read of Response0And1 *)
TrainingVals ==
    IF IsMock THEN {MockGet("Response0And1")}
    ELSE {TRAIN_FIRST, TRAIN_LAST, U32(0, 0)}

(* the memory-training loop *)
InitTraining ==
    /\ pc = "training"
    /\ IF idx < Len(TrainingBody)
       THEN ScriptStep(TrainingBody, "training")
       ELSE \/ \E res \in TrainingVals :
                 LET out == TrainingOutcome(current_val, res) IN
                 /\ out = "again" => iter < MaxTraining
                 /\ DidRead("Response0And1", res)
                 /\ CASE out = "panic" -> Return(Panic)
                      [] out = "break" -> Enter("seq_b")
                      [] out = "again" ->
                            /\ Goto("training")
                            /\ idx' = 1
                            /\ iter' = iter + 1
                            /\ current_val' = IF current_val = NoVal THEN res ELSE current_val
                            /\ poll' = poll
            \/ FailWith("read", "Response0And1", NoVal)
    /\ UNCHANGED <<initialized, buffer, op, args, before>>

(* the loop as the code runs it, without the cap of MaxTraining: the       *)
(* `loop` of lines 58-83 has no exit other than a changed value, a failed  *)
(* assert_eq! or a transport error.  To keep the state finite the log      *)
(* records the first MaxTraining iterations and the running one: a further *)
(* iteration that goes round again drops its own entries.                  *)
InitTrainingUnbounded ==
    /\ pc = "training"
    /\ IF idx < Len(TrainingBody)
       THEN ScriptStep(TrainingBody, "training")
       ELSE \/ \E res \in TrainingVals :
                 LET out == TrainingOutcome(current_val, res) IN
                 CASE out = "panic" -> DidRead("Response0And1", res) /\ Return(Panic)
                   [] out = "break" -> DidRead("Response0And1", res) /\ Enter("seq_b")
                   [] out = "again" ->
                         /\ Goto("training")
                         /\ idx' = 1
                         /\ current_val' = IF current_val = NoVal THEN res ELSE current_val
                         /\ poll' = poll
                         /\ IF iter < MaxTraining
                            THEN /\ iter' = iter + 1
                                 /\ DidRead("Response0And1", res)
                            ELSE /\ iter' = iter
                                 /\ log' = SubSeq(log, 1, Len(log) - (Len(TrainingBody) - 1))
                                 /\ backend' = backend
            \/ FailWith("read", "Response0And1", NoVal)
    /\ UNCHANGED <<initialized, buffer, op, args, before>>

InitSequenceB ==
    /\ pc = "seq_b"
    /\ ScriptStep(InitScriptB, InitOrder("init_sequence"))
    /\ UNCHANGED <<initialized, buffer, op, args, before>>

(* self.initialized = true; Ok(()) *)
InitDone ==
    /\ pc = "set_initialized"
    /\ initialized' = TRUE
    /\ Return(Ok)
    /\ UNCHANGED <<buffer, op, args, before, log, backend>>

----------------------------------------------------------------------------
(* EmmcReader::poll_for_value                                              *)

(* status_value == value *)
PollNeverMatches(status_value, value) == FALSE
(* a poll that also takes data-ready for the value it waits for *)
PollMatchesDataReady(status_value, value) ==
    status_value = value \/ status_value = DATA_READY
PollMatches(status_value, value) == status_value = value

StartPoll(register, value, ret) ==
    /\ pc' = "poll"
    /\ poll' = [register |-> register, value |-> value, count |-> 0, ret |-> ret]
    /\ result' = Running
    /\ UNCHANGED <<idx, iter, current_val>>

(* poll_for_value returned Ok(()): the caller goes on after its `?` *)
PollReturned(ret) ==
    CASE ret = "caller" -> Return(Ok)
      [] ret = "rp_poll_data_ready" ->
            StartPoll("InterruptStatus", DATA_READY, "rp_ack_data_ready")
      [] ret = "ep_poll_complete" ->
            StartPoll("InterruptStatus", TRANSFER_COMPLETE, "ep_ack_complete")
      [] ret = "wp_poll_complete" ->
            StartPoll("InterruptStatus", TRANSFER_COMPLETE, "wp_ack_complete")
      [] OTHER -> /\ Goto(ret)
                  /\ poll' = NoPoll
                  /\ UNCHANGED <<idx, iter, current_val>>

CallPollForValue ==
    /\ CanCall
    /\ \E call \in PollCalls :
         /\ args' = [register |-> call[1], value |-> call[2]]
         /\ StartPoll(call[1], call[2], "caller")
    /\ op' = "poll_for_value"
    /\ log' = <<>>
    /\ before' = buffer
    /\ UNCHANGED <<initialized, buffer, backend>>

(* one iteration of the loop: read, compare, (sleep) *)
PollRead ==
    /\ pc = "poll"
    /\ \/ \E status_value \in ReadVals(poll.register, poll.value) :
            /\ DidRead(poll.register, status_value)
            /\ IF PollMatches(status_value, poll.value)
               THEN PollReturned(poll.ret)
               ELSE IF poll.count + 1 < MAX_POLLS
                    THEN /\ Goto("poll")
                         /\ poll' = [poll EXCEPT !.count = @ + 1]
                         /\ UNCHANGED <<idx, iter, current_val>>
                    ELSE Return(Timeout)
       \/ FailWith("read", poll.register, NoVal)
    /\ UNCHANGED <<initialized, buffer, op, args, before>>

----------------------------------------------------------------------------
(* EmmcReader::read_page                                                   *)

CallReadPage ==
    /\ CanCall
    /\ \E pn \in PageNumbers : args' = [page_number |-> pn]
    /\ op' = "read_page"
    /\ pc' = "rp_status_clear"
    /\ result' = Running
    /\ log' = <<>>
    /\ before' = buffer
    /\ UNCHANGED <<initialized, buffer, idx, iter, current_val, poll, backend>>

(* a register write of read_page, followed by `then` *)
RpWrite(reg, val, then) ==
    /\ \/ /\ Wrote(reg, val)
          /\ then
       \/ FailWith("write", reg, val)
    /\ UNCHANGED <<initialized, buffer, op, args, before>>

Stay(l) == Goto(l) /\ UNCHANGED <<idx, iter, current_val, poll>>

(* Step 1 *)
RpStatusClear ==
    /\ pc = "rp_status_clear"
    /\ RpWrite("InterruptStatus", STATUS_CLEAR, Stay("rp_set_argument"))

(* Step 2 *)
RpSetArgument ==
    /\ pc = "rp_set_argument"
    /\ RpWrite("Argument", args.page_number, Stay("rp_transfer_config"))

(* Step 3, then step 4 starts polling *)
RpTransferConfig ==
    /\ pc = "rp_transfer_config"
    /\ RpWrite("CommandAndTransferMode", PAGE_READ,
               StartPoll("InterruptStatus", CMD_ACCEPTED, "rp_poll_data_ready"))

(* Step 5: acknowledge data ready *)
RpAckDataReady ==
    /\ pc = "rp_ack_data_ready"
    /\ RpWrite("InterruptStatus", DATA_READY, Stay("rp_read_data"))

(* read_data stores what the transport delivers in the caller's buffer *)
KeepBuffer(buf, data) == buf
FillBuffer(buf, data) == data

(* A read_data that fails may have received part of the data: the bytes   *)
(* that arrived are in the caller's buffer, the rest is as it was.         *)
PartialLens == {100}
PartialFill(buf, data, n) ==
    [i \in 1..PAGE_SIZE |-> IF i <= n THEN data[i] ELSE buf[i]]
PartialBuffers(buf) ==
    {buf} \cup {PartialFill(buf, data, n) : data \in DataVals, n \in PartialLens}

(* Step 6 *)
RpReadData ==
    /\ pc = "rp_read_data"
    /\ \/ \E data \in DataVals :
            /\ log' = Append(log, Entry("read_data", "DataFifo", data, "Ok"))
            /\ backend' = backend
            /\ buffer' = FillBuffer(buffer, data)
            /\ Stay("rp_read_status")
       \/ /\ FailWith("read_data", "DataFifo", NoVal)
          /\ buffer' \in PartialBuffers(buffer)
    /\ UNCHANGED <<initialized, op, args, before>>

(* Step 7: the status read, its value discarded *)
RpReadStatus ==
    /\ pc = "rp_read_status"
    /\ \/ \E status_value \in ReadVals("InterruptStatus", TRANSFER_COMPLETE) :
            /\ DidRead("InterruptStatus", status_value)
            /\ Stay("rp_ack_complete")
       \/ FailWith("read", "InterruptStatus", NoVal)
    /\ UNCHANGED <<initialized, buffer, op, args, before>>

(* Step 7: acknowledge transfer complete; Ok(()) *)
RpAckComplete ==
    /\ pc = "rp_ack_complete"
    /\ RpWrite("InterruptStatus", TRANSFER_COMPLETE, Return(Ok))

----------------------------------------------------------------------------
(* EmmcReader::erase_page (stub)                                           *)

(* an erase_page that sets the argument without clearing the status first *)
CallErasePageNoClear ==
    /\ CanCall
    /\ \E pn \in PageNumbers : args' = [page_number |-> pn]
    /\ op' = "erase_page"
    /\ pc' = "ep_set_argument"
    /\ result' = Running
    /\ log' = <<>>
    /\ before' = buffer
    /\ UNCHANGED <<initialized, buffer, idx, iter, current_val, poll, backend>>

(* an erase_page that drops the initialized flag on entry *)
CallErasePageResets ==
    /\ CanCall
    /\ \E pn \in PageNumbers : args' = [page_number |-> pn]
    /\ op' = "erase_page"
    /\ pc' = "ep_status_clear"
    /\ result' = Running
    /\ log' = <<>>
    /\ before' = buffer
    /\ initialized' = FALSE
    /\ UNCHANGED <<buffer, idx, iter, current_val, poll, backend>>

CallErasePage ==
    /\ CanCall
    /\ \E pn \in PageNumbers : args' = [page_number |-> pn]
    /\ op' = "erase_page"
    /\ pc' = "ep_status_clear"
    /\ result' = Running
    /\ log' = <<>>
    /\ before' = buffer
    /\ UNCHANGED <<initialized, buffer, idx, iter, current_val, poll, backend>>

(* Step 1 *)
EpStatusClear ==
    /\ pc = "ep_status_clear"
    /\ RpWrite("InterruptStatus", STATUS_CLEAR, Stay("ep_set_argument"))

(* Step 2 *)
EpSetArgument ==
    /\ pc = "ep_set_argument"
    /\ RpWrite("Argument", args.page_number, Stay("ep_transfer_config"))

(* Step 3 with the placeholder configuration, then step 4 starts polling *)
EpTransferConfig ==
    /\ pc = "ep_transfer_config"
    /\ RpWrite("CommandAndTransferMode", ERASE_TRANSFER_CONFIG,
               StartPoll("InterruptStatus", CMD_ACCEPTED, "ep_poll_complete"))

(* the value a stub returns once its skeleton has run *)
StubResult == Ok

(* Step 5: acknowledge; println!; Ok(()) *)
EpAckComplete ==
    /\ pc = "ep_ack_complete"
    /\ RpWrite("InterruptStatus", TRANSFER_COMPLETE, Return(StubResult))

----------------------------------------------------------------------------
(* EmmcReader::write_page (stub): the buffer is never handed to the        *)
(* transport                                                               *)

CallWritePage ==
    /\ CanCall
    /\ \E pn \in PageNumbers : args' = [page_number |-> pn, buffer |-> buffer]
    /\ op' = "write_page"
    /\ pc' = "wp_status_clear"
    /\ result' = Running
    /\ log' = <<>>
    /\ before' = buffer
    /\ UNCHANGED <<initialized, buffer, idx, iter, current_val, poll, backend>>

(* write_page called for the page the erase_page before it was called     *)
(* for; the finished erase_page call is kept beside the arguments          *)
CallWritePageAfterErase ==
    /\ CanCall
    /\ op = "erase_page"
    /\ args' = [page_number |-> args.page_number, buffer |-> buffer,
                erased |-> [log |-> log, result |-> result]]
    /\ op' = "write_page"
    /\ pc' = "wp_status_clear"
    /\ result' = Running
    /\ log' = <<>>
    /\ before' = buffer
    /\ UNCHANGED <<initialized, buffer, idx, iter, current_val, poll, backend>>

(* the device behaves towards the running call as it did towards the      *)
(* erase_page kept in args: the operation just logged got the status, and  *)
(* when both are reads the value, that the erase_page's operation at the   *)
(* same position got                                                       *)
SameDeviceBehaviour ==
    ("erased" \in DOMAIN args /\ log # <<>> /\ Len(log) <= Len(args.erased.log)) =>
        LET mine == log[Len(log)]
            theirs == args.erased.log[Len(log)]
        IN  /\ mine.res = theirs.res
            /\ (mine.kind = "read" /\ theirs.kind = "read") => mine.val = theirs.val

(* Step 1 *)
WpStatusClear ==
    /\ pc = "wp_status_clear"
    /\ RpWrite("InterruptStatus", STATUS_CLEAR, Stay("wp_set_argument"))

(* Step 2 *)
WpSetArgument ==
    /\ pc = "wp_set_argument"
    /\ RpWrite("Argument", args.page_number, Stay("wp_transfer_config"))

(* Step 3 with the placeholder configuration, then step 4 starts polling *)
WpTransferConfig ==
    /\ pc = "wp_transfer_config"
    /\ RpWrite("CommandAndTransferMode", WRITE_TRANSFER_CONFIG,
               StartPoll("InterruptStatus", CMD_ACCEPTED, "wp_poll_complete"))

(* Step 6: acknowledge; println!; Ok(()) *)
WpAckComplete ==
    /\ pc = "wp_ack_complete"
    /\ RpWrite("InterruptStatus", TRANSFER_COMPLETE, Return(StubResult))

----------------------------------------------------------------------------
(* EmmcReader::write_register / read_register / read_data: each forwards   *)
(* to the transport primitive of the same name                             *)

StartCall(name, a, l) ==
    /\ CanCall
    /\ op' = name
    /\ args' = a
    /\ pc' = l
    /\ result' = Running
    /\ log' = <<>>
    /\ before' = buffer
    /\ UNCHANGED <<initialized, buffer, idx, iter, current_val, poll, backend>>

CallWriteRegister ==
    \E r \in DirectRegisters, v \in DirectValues :
        StartCall("write_register", [register |-> r, value |-> v], "write_register")

(* self.backend.write_register(register, value) *)
WriteRegister ==
    /\ pc = "write_register"
    /\ RpWrite(args.register, args.value, Return(Ok))

CallReadRegister ==
    \E r \in DirectRegisters :
        StartCall("read_register", [register |-> r], "read_register")

(* self.backend.read_register(register) *)
ReadRegister ==
    /\ pc = "read_register"
    /\ \/ \E value \in ReadVals(args.register, U32(0, 0)) :
            /\ DidRead(args.register, value)
            /\ Return(OkValue(value))
       \/ FailWith("read", args.register, NoVal)
    /\ UNCHANGED <<initialized, buffer, op, args, before>>

(* read_register of the register the call before has just written: the    *)
(* value written is kept beside the argument                               *)
CallReadBack ==
    /\ op = "write_register"
    /\ result = Ok
    /\ StartCall("read_register",
                 [register |-> args.register, written |-> args.value], "read_register")

CallReadData ==
    \E r \in DirectRegisters :
        StartCall("read_data", [register |-> r], "read_data")

(* self.backend.read_data(register, buffer) *)
ReadData ==
    /\ pc = "read_data"
    /\ \/ \E data \in DataVals :
            /\ log' = Append(log, Entry("read_data", args.register, data, "Ok"))
            /\ backend' = backend
            /\ buffer' = FillBuffer(buffer, data)
            /\ Return(Ok)
       \/ /\ FailWith("read_data", args.register, NoVal)
          /\ buffer' \in PartialBuffers(buffer)
    /\ UNCHANGED <<initialized, op, args, before>>

----------------------------------------------------------------------------
(* EmmcReader::read_response                                               *)

(* index: u8 *)
ResponseIndexes == {0, 1, 2, 3, 4, 5, 255}

RegisterAccessFailed == Err("RegisterAccessFailed")

(* the match on index: the register to read, if any *)
response_register_wrapping(index) ==
    [some |-> TRUE,
     value |-> CASE index % 4 = 0 -> "Response0And1"
                 [] index % 4 = 1 -> "Response2And3"
                 [] index % 4 = 2 -> "Response4And5"
                 [] index % 4 = 3 -> "Response6And7"]

response_register(index) ==
    CASE index = 0 -> [some |-> TRUE, value |-> "Response0And1"]
      [] index = 1 -> [some |-> TRUE, value |-> "Response2And3"]
      [] index = 2 -> [some |-> TRUE, value |-> "Response4And5"]
      [] index = 3 -> [some |-> TRUE, value |-> "Response6And7"]
      [] OTHER -> [some |-> FALSE]

(* `_ => return Err(Error::RegisterAccessFailed)` happens before any       *)
(* transport operation                                                     *)
CallReadResponse ==
    /\ CanCall
    /\ \E index \in ResponseIndexes :
          /\ args' = [index |-> index]
          /\ IF response_register(index).some
             THEN /\ pc' = "read_response"
                  /\ result' = Running
                  /\ UNCHANGED <<idx, iter, current_val, poll>>
             ELSE Return(RegisterAccessFailed)
    /\ op' = "read_response"
    /\ log' = <<>>
    /\ before' = buffer
    /\ UNCHANGED <<initialized, buffer, backend>>

(* self.read_register(register) *)
ReadResponse ==
    /\ pc = "read_response"
    /\ LET reg == response_register(args.index).value IN
       \/ \E value \in ReadVals(reg, U32(0, 0)) :
             /\ DidRead(reg, value)
             /\ Return(OkValue(value))
       \/ FailWith("read", reg, NoVal)
    /\ UNCHANGED <<initialized, buffer, op, args, before>>

(* the calls that forward one register access to the transport *)
NextDirect ==
    \/ CallWriteRegister
    \/ WriteRegister
    \/ CallReadRegister
    \/ ReadRegister
    \/ CallReadData
    \/ ReadData
    \/ CallReadResponse
    \/ ReadResponse

----------------------------------------------------------------------------
(* protocol/commands.rs and protocol/transaction.rs: pure functions        *)

None == [some |-> FALSE]
Some(x) == [some |-> TRUE, value |-> x]

(* Command::bits: the enum discriminant *)
CommandNames == {"Read", "Write"}
bits_shifted(cmd) == IF cmd = "Read" THEN \h2 ELSE \h4
bits(cmd) == IF cmd = "Read" THEN \h1 ELSE \h2

(* Command::bit_length *)
Command_bit_length == 2

(* Register::from_address *)
from_address_swapped(addr) ==
    CASE addr = \h02 -> Some("CommandAndTransferMode")
      [] addr = \h03 -> Some("Argument")
      [] OTHER -> None

from_address(addr) ==
    CASE addr = \h02 -> Some("Argument")
      [] addr = \h03 -> Some("CommandAndTransferMode")
      [] addr = \h04 -> Some("Response0And1")
      [] addr = \h05 -> Some("Response2And3")
      [] addr = \h06 -> Some("Response4And5")
      [] addr = \h07 -> Some("Response6And7")
      [] addr = \h08 -> Some("DataFifo")
      [] addr = \h09 -> Some("PresentState")
      [] addr = \h0B -> Some("Command")
      [] addr = \h0C -> Some("InterruptStatus")
      [] addr = \h0D -> Some("Config1")
      [] addr = \h0E -> Some("Config2")
      [] addr = \h44 -> Some("InitCommand")
      [] OTHER -> None

(* DataSize::bytes *)
bytes_swapped(size) == IF size = "Register" THEN 512 ELSE 4
bytes(size) == IF size = "Register" THEN 4 ELSE 512

(* TransactionType::write / read / read_data *)
write(reg, data) == [variant |-> "Write", register |-> reg, data |-> data]
read(reg) == [variant |-> "Read", register |-> reg]
read_data(reg) == [variant |-> "ReadData", register |-> reg]

(* TransactionType::command *)
command_always_read(txn) == "Read"
command(txn) == IF txn.variant = "Write" THEN "Write" ELSE "Read"

(* TransactionType::register *)
register(txn) == txn.register

(* TransactionType::response_size *)
response_size_register(txn) ==
    IF txn.variant = "Write" THEN None ELSE Some("Register")

response_size(txn) ==
    CASE txn.variant = "Write" -> None
      [] txn.variant = "Read" -> Some("Register")
      [] txn.variant = "ReadData" -> Some("Page")

(* TransactionType::write_data *)
write_data(txn) == IF txn.variant = "Write" THEN Some(txn.data) ELSE None

(* u32::to_le_bytes on a value kept as two 16-bit halves *)
to_be_bytes(v) == << v[1] \div 256, v[1] % 256, v[2] \div 256, v[2] % 256 >>
to_le_bytes(v) == << v[2] % 256, v[2] \div 256, v[1] % 256, v[1] \div 256 >>

(* Register::bit_length *)
Register_bit_length == 8

(* the bits of the low n bits of v in the order they are clocked out *)
RECURSIVE LsbFirst(_, _)
LsbFirst(v, n) == IF n = 0 THEN <<>> ELSE <<v % 2>> \o LsbFirst(v \div 2, n - 1)

RECURSIVE MsbFirst(_, _)
MsbFirst(v, n) == IF n = 0 THEN <<>> ELSE MsbFirst(v \div 2, n - 1) \o <<v % 2>>

(* the bits of a byte slice on the wire of a bus with the given bit order *)
RECURSIVE WireBytes(_, _)
WireBytes(bs, order) ==
    IF bs = <<>> THEN <<>>
    ELSE (IF order = "lsb" THEN LsbFirst(Head(bs), 8) ELSE MsbFirst(Head(bs), 8))
            \o WireBytes(Tail(bs), order)

(* FtdiBackend::write_register: what the MPSSE commands clock out between *)
(* the two set_gpio_lower commands that assert and release chip select;    *)
(* ClockBitsOut::LsbNeg and ClockDataOut::LsbNeg send the low bit first    *)
FtdiBackend_write_register(reg, data) ==
    LsbFirst(bits("Write"), Command_bit_length)
        \o LsbFirst(address(reg), Register_bit_length)
        \o WireBytes(to_le_bytes(data), "lsb")

(* EhSpiBackend::write_register (embedded-hal 0.2): the 6-byte frame       *)
(* handed to SpiDevice::write, which frames it with chip select; the bit   *)
(* order is the bus configuration, which this code does not set            *)
EhSpiBackend_write_register(reg, data, order) ==
    WireBytes(<<bits("Write"), address(reg)>> \o to_le_bytes(data), order)

(* Eh1SpiBackend::write_register (embedded-hal 1.0): the same 6-byte frame *)
Eh1SpiBackend_write_register(reg, data, order) ==
    WireBytes(<<bits("Write"), address(reg)>> \o to_le_bytes(data), order)

(* ftdi.rs SpiPin: a flag set over the eight pins AD0..AD7, kept as the    *)
(* set of the bit numbers that are 1                                       *)
CLK        == {0}
MOSI       == {1}
MISO       == {2}
SS_N       == {3}
SWO_DBG_EN == {4}
EN_N       == {5}
UNUSED     == {6}
RST_N      == {7}
SpiPin == SUBSET (0..7)

(* SpiPin::bits: the u8 with exactly these bits set *)
RECURSIVE pin_bits(_)
pin_bits(pins) ==
    IF pins = {} THEN 0
    ELSE LET b == CHOOSE x \in pins : TRUE IN 2 ^ b + pin_bits(pins \ {b})

InvalidPinMask == Err("InvalidPinMask")

(* FtdiBackend::set_data_bits_single *)
set_data_bits_single_toggle(current_bits, target_bits, high) ==
    IF Cardinality(target_bits) # 1
    THEN InvalidPinMask
    ELSE OkValue((current_bits \ target_bits) \cup (target_bits \ current_bits))

set_data_bits_single(current_bits, target_bits, high) ==
    IF Cardinality(target_bits) # 1
    THEN InvalidPinMask
    ELSE OkValue(IF high THEN current_bits \cup target_bits
                         ELSE current_bits \ target_bits)

(* target masks tried: none, single pins, two pins, all pins *)
TargetMasks == { {}, CLK, SS_N, EN_N, RST_N, SS_N \cup EN_N, 0..7 }

Transports == {"ftdi", "eh0", "eh1"}
BitOrders == {"msb", "lsb"}

(* inputs: every 8-bit address, every register, and the transactions the   *)
(* three constructors build                                                *)
Addresses == 0..255
TxnData == {U32(\hDEAD, \hBEEF), U32(0, \h0102)}

ProtoInputs ==
    [addr : Addresses]
    \cup [register : RegisterNames]
    \cup [command : CommandNames]
    \cup [current_bits : SpiPin, target_bits : TargetMasks, high : BOOLEAN]
    \cup [transport : {"ftdi"}, order : {"lsb"}, register : RegisterNames, data : TxnData]
    \cup [transport : {"eh0", "eh1"}, order : BitOrders, register : RegisterNames, data : TxnData]
    \cup [ctor : {"write"}, register : RegisterNames, data : TxnData]
    \cup [ctor : {"read", "read_data"}, register : RegisterNames]

InitProto ==
    /\ initialized = FALSE
    /\ buffer = ZeroPage
    /\ op = "new"
    /\ pc = "apply"
    /\ idx = 0
    /\ iter = 0
    /\ current_val = NoVal
    /\ poll = NoPoll
    /\ args \in ProtoInputs
    /\ before = ZeroPage
    /\ log = <<>>
    /\ result = Running
    /\ backend = DeviceBackend

(* a pure function is applied to the input and its value returned *)
Apply(name, value) ==
    /\ pc = "apply"
    /\ op' = name
    /\ Return(OkValue(value))
    /\ UNCHANGED <<initialized, buffer, args, before, log, backend>>

IsTxnInput == "ctor" \in DOMAIN args

(* the transaction the input's constructor builds *)
Built ==
    CASE args.ctor = "write" -> write(args.register, args.data)
      [] args.ctor = "read" -> read(args.register)
      [] args.ctor = "read_data" -> read_data(args.register)

(* Command::bits and Command::bit_length *)
ApplyBits ==
    /\ DOMAIN args = {"command"}
    /\ Apply("bits", [bits |-> bits(args.command), bit_length |-> Command_bit_length])

ApplyAddress ==
    /\ DOMAIN args = {"register"}
    /\ Apply("address", address(args.register))

ApplyFromAddress ==
    /\ DOMAIN args = {"addr"}
    /\ Apply("from_address", from_address(args.addr))

(* the transaction and what its four accessors (and DataSize::bytes) say *)
ApplyTransaction ==
    /\ IsTxnInput
    /\ LET txn == Built
           size == response_size(txn)
       IN  Apply("transaction",
                 [ txn |-> txn,
                   command |-> command(txn),
                   register |-> register(txn),
                   write_data |-> write_data(txn),
                   response_size |-> size,
                   bytes |-> IF size.some THEN Some(bytes(size.value)) ELSE None ])

ApplySetDataBitsSingle ==
    /\ pc = "apply"
    /\ "target_bits" \in DOMAIN args
    /\ op' = "set_data_bits_single"
    /\ Return(set_data_bits_single(args.current_bits, args.target_bits, args.high))
    /\ UNCHANGED <<initialized, buffer, args, before, log, backend>>

----------------------------------------------------------------------------
(* ftdi.rs: GpioControl for FtdiBackend.  The device holds the levels of   *)
(* the eight lower pins: gpio_lower() reads them, set_gpio_lower(value,    *)
(* direction) drives the pins that direction marks as outputs.             *)

(* FtdiBackend::pin_directions *)
pin_directions == CLK \cup MOSI \cup SS_N \cup EN_N \cup RST_N

FtdiDevice(pins) == [kind |-> "ftdi", pins |-> pins]

(* pin levels when the backend is opened *)
InitialPins == { {}, MISO \cup SS_N \cup EN_N \cup RST_N, 0..7 }

(* the three lines are active low: logical true is level low *)
ActiveHigh(logical) == logical
ActiveLow(logical) == ~logical

(* what one call of the backend does to the device, step by step.  Each   *)
(* step is one call on self.dev, written <<call, target_pin, high>>:       *)
(* set_gpio_lower carries the arguments of set_single_pin,                 *)
(* set_data_bits_absolute the state it drives.                             *)
DevStep(k) == <<k, {}, FALSE>>

(* set_single_pin(target_pin, high) *)
set_single_pin(target_pin, high) ==
    << DevStep("get_data_bits"),
       <<"set_gpio_lower", target_pin, high>> >>

(* SpiBackend::reset: assert reset, hold, release *)
FtdiResetScript ==
    set_single_pin(RST_N, ActiveLow(TRUE)) \o set_single_pin(RST_N, ActiveLow(FALSE))

(* SpiBackend::initialize *)
FtdiInitializeScript ==
    << DevStep("set_bit_mode"),
       DevStep("set_latency_timer"),
       <<"set_data_bits_absolute", SS_N \cup EN_N \cup RST_N, TRUE>>,
       DevStep("set_gpio_upper") >>
    \o set_single_pin(EN_N, ActiveLow(TRUE))
    \o set_single_pin(SS_N, ActiveLow(TRUE))
    \o FtdiResetScript
    \o set_single_pin(SS_N, ActiveLow(FALSE))
    \o << DevStep("set_clock") >>

(* write_register: the pins are read, then one MPSSE stream is sent;       *)
(* read_register and read_data also receive the answer                     *)
FtdiWriteScript == << DevStep("get_data_bits"), DevStep("send") >>
FtdiReadScript == << DevStep("get_data_bits"), DevStep("send"), DevStep("recv") >>

(* entry of a call of the backend *)
FtdiStart(name, a, script) ==
    /\ CanCall
    /\ op' = name
    /\ args' = [a EXCEPT !.script = script]
    /\ pc' = script[1][1]
    /\ idx' = 1
    /\ result' = Running
    /\ log' = <<>>
    /\ before' = buffer
    /\ UNCHANGED <<initialized, buffer, iter, current_val, poll, backend>>

(* the step has succeeded: on to the next device call, or return r *)
FtdiNext(r, bits_read) ==
    IF idx < Len(args.script)
    THEN /\ pc' = args.script[idx + 1][1]
         /\ idx' = idx + 1
         /\ current_val' = bits_read
         /\ result' = result
         /\ UNCHANGED <<iter, poll>>
    ELSE Return(r)

(* set_gpio_lower(value, direction): the output pins take value *)
Driven(value) ==
    FtdiDevice((backend.pins \ pin_directions) \cup (value \cap pin_directions))

(* entry of set_single_pin(target_pin, high) from one of the three calls *)
StartPinCall(name, a, target_pin, high) ==
    FtdiStart(name, [logical |-> a, script |-> <<>>], set_single_pin(target_pin, high))

(* self.set_single_pin(SpiPin::SS_N, !asserted) *)
CallSetChipSelect ==
    \E asserted \in BOOLEAN :
        StartPinCall("set_chip_select", asserted, SS_N, ActiveLow(asserted))

(* self.set_single_pin(SpiPin::RST_N, !asserted) *)
CallSetReset ==
    \E asserted \in BOOLEAN :
        StartPinCall("set_reset", asserted, RST_N, ActiveLow(asserted))

(* self.set_single_pin(SpiPin::EN_N, !enabled) *)
CallSetEnable ==
    \E enabled \in BOOLEAN :
        StartPinCall("set_enable", enabled, EN_N, ActiveLow(enabled))

CallFtdiReset ==
    FtdiStart("reset", [script |-> <<>>], FtdiResetScript)

CallFtdiInitialize ==
    FtdiStart("initialize", [script |-> <<>>], FtdiInitializeScript)

CallFtdiWriteRegister ==
    \E r \in DirectRegisters, v \in DirectValues :
        FtdiStart("write_register",
                  [register |-> r, value |-> v, script |-> <<>>], FtdiWriteScript)

CallFtdiReadRegister ==
    \E r \in DirectRegisters :
        FtdiStart("read_register", [register |-> r, script |-> <<>>], FtdiReadScript)

CallFtdiReadData ==
    \E r \in DirectRegisters :
        FtdiStart("read_data", [register |-> r, script |-> <<>>], FtdiReadScript)

(* a call on self.dev that changes nothing the model tracks *)
DevConfig(k) ==
    /\ pc = k
    /\ \/ /\ log' = Append(log, Entry(k, "-", NoVal, "Ok"))
          /\ backend' = backend
          /\ FtdiNext(Ok, current_val)
       \/ FailWith(k, "-", NoVal)
    /\ UNCHANGED <<initialized, buffer, op, args, before>>

(* self.dev.set_bit_mode(0x0, BitMode::Mpsse)? *)
SetBitMode == DevConfig("set_bit_mode")

(* self.dev.set_latency_timer(Duration::from_millis(2))? *)
SetLatencyTimer == DevConfig("set_latency_timer")

(* set_data_bits_absolute: self.dev.set_gpio_lower(state, pin_directions)? *)
SetDataBitsAbsolute ==
    /\ pc = "set_data_bits_absolute"
    /\ LET state == args.script[idx][2] IN
       \/ /\ log' = Append(log, Entry("set_gpio_lower", pin_directions, state, "Ok"))
          /\ backend' = Driven(state)
          /\ FtdiNext(Ok, current_val)
       \/ FailWith("set_gpio_lower", pin_directions, state)
    /\ UNCHANGED <<initialized, buffer, op, args, before>>

(* set_data_bits_absolute: self.dev.set_gpio_upper(0, 0)? *)
SetGpioUpper == DevConfig("set_gpio_upper")

(* self.dev.set_clock(149)? *)
SetClock == DevConfig("set_clock")

(* let current = self.get_data_bits()?;  every bit of the u8 is a flag, so *)
(* SpiPin::from_bits never fails                                           *)
GetDataBits ==
    /\ pc = "get_data_bits"
    /\ \/ /\ log' = Append(log, Entry("gpio_lower", "-", backend.pins, "Ok"))
          /\ backend' = backend
          /\ FtdiNext(Ok, backend.pins)
       \/ FailWith("gpio_lower", "-", NoVal)
    /\ UNCHANGED <<initialized, buffer, op, args, before>>

(* let updated = Self::set_data_bits_single(current, target_pin, high)?;   *)
(* self.dev.set_gpio_lower(updated.bits(), Self::pin_directions().bits())? *)
SetGpioLower ==
    /\ pc = "set_gpio_lower"
    /\ LET target_pin == args.script[idx][2]
           high == args.script[idx][3]
           updated == set_data_bits_single(current_val, target_pin, high) IN
       IF updated.kind # "Ok"
       THEN /\ Return(updated)
            /\ UNCHANGED <<log, backend>>
       ELSE \/ /\ log' = Append(log, Entry("set_gpio_lower", pin_directions, updated.value, "Ok"))
               /\ backend' = Driven(updated.value)
               /\ FtdiNext(Ok, current_val)
            \/ FailWith("set_gpio_lower", pin_directions, updated.value)
    /\ UNCHANGED <<initialized, buffer, op, args, before>>

(* self.dev.send(..)?: the stream drives chip select low (bits & !SS_N),   *)
(* clocks the frame and drives chip select high again (bits | SS_N).  When *)
(* the send fails the device has executed the commands that reached it:    *)
(* none, or the leading set_gpio_lower, which leaves chip select low.      *)
(* write_register ends its stream with the closing set_gpio_lower, so a    *)
(* short write never holds it whole; read_register and read_data end with  *)
(* send_immediate, so a short write can hold the closing set_gpio_lower.   *)
MpsseSend ==
    /\ pc = "send"
    /\ LET low == current_val \ SS_N
           high == current_val \cup SS_N IN
       \/ /\ log' = Append(log, Entry("send", args.register, <<low, high>>, "Ok"))
          /\ backend' = Driven(high)
          /\ FtdiNext(Ok, current_val)
       \/ /\ backend' \in {backend, Driven(low)}
                          \cup (IF op = "write_register" THEN {} ELSE {Driven(high)})
          /\ \E e \in TransportErrors :
                /\ log' = Append(log, Entry("send", args.register, <<low, high>>, e))
                /\ Return(Err(e))
    /\ UNCHANGED <<initialized, buffer, op, args, before>>

(* self.dev.recv(..)?: read_register receives 4 bytes into a local buffer, *)
(* read_data receives straight into the caller's buffer, which holds the   *)
(* bytes that arrived when the receive fails                               *)
FtdiRecv ==
    /\ pc = "recv"
    /\ IF op = "read_data"
       THEN \/ \E data \in DataVals :
                 /\ log' = Append(log, Entry("recv", args.register, data, "Ok"))
                 /\ backend' = backend
                 /\ buffer' = FillBuffer(buffer, data)
                 /\ Return(Ok)
            \/ /\ FailWith("recv", args.register, NoVal)
               /\ buffer' \in PartialBuffers(buffer)
       ELSE /\ buffer' = buffer
            /\ \/ \E value \in DirectValues :
                     /\ log' = Append(log, Entry("recv", args.register, value, "Ok"))
                     /\ backend' = backend
                     /\ Return(OkValue(value))
               \/ FailWith("recv", args.register, NoVal)
    /\ UNCHANGED <<initialized, op, args, before>>

InitPins ==
    /\ initialized = FALSE
    /\ buffer = ZeroPage
    /\ op = "new"
    /\ pc = "idle"
    /\ idx = 0
    /\ iter = 0
    /\ current_val = NoVal
    /\ poll = NoPoll
    /\ args = NoArgs
    /\ before = ZeroPage
    /\ log = <<>>
    /\ result = [kind |-> "none"]
    /\ \E pins \in InitialPins : backend = FtdiDevice(pins)

NextPins ==
    \/ CallSetChipSelect
    \/ CallSetReset
    \/ CallSetEnable
    \/ CallFtdiReset
    \/ CallFtdiInitialize
    \/ CallFtdiWriteRegister
    \/ CallFtdiReadRegister
    \/ CallFtdiReadData
    \/ SetBitMode
    \/ SetLatencyTimer
    \/ SetDataBitsAbsolute
    \/ SetGpioUpper
    \/ SetClock
    \/ GetDataBits
    \/ SetGpioLower
    \/ MpsseSend
    \/ FtdiRecv

SpecPins == InitPins /\ [][NextPins]_vars

----------------------------------------------------------------------------
(* tools/src/bin/emmc_cli.rs: main.  The program is a straight line of     *)
(* calls, each followed by `?`; its position is the last call made (op)    *)
(* and what that call returned (result).  The bytes written to dump.bin    *)
(* so far are carried in the frame of main (args.file).                    *)
MAX_NAND_PAGES == 10354688
CLI_PAGE_SIZE == 512

(* pages of the dump the model follows *)
MaxDumpPages == 2

(* (0..MAX_NAND_PAGES).step_by(PAGE_SIZE): the n-th value, n from 0, as *)
(* the u32 the loop hands to read_page (high and low 16-bit halves)     *)
DumpPageNum(n) ==
    U32(((n * CLI_PAGE_SIZE) \div 65536) % 65536, (n * CLI_PAGE_SIZE) % 65536)
DumpSteps == (MAX_NAND_PAGES + CLI_PAGE_SIZE - 1) \div CLI_PAGE_SIZE

(* the `?` operator: main goes on only when the call returned Ok *)
TryUnchecked(r) == r.kind # "panic"
Try(r) == r = Ok

IoError == Err("Io")

(* write_all loops over write: when it fails, the bytes of the page that   *)
(* earlier writes took are in the file                                     *)
PartialWrites == {200}

(* reader.init()? *)
MainInit ==
    /\ op = "new"
    /\ pc = "idle"
    /\ op' = "init"
    /\ log' = <<>>
    /\ before' = buffer
    /\ args' = NoArgs
    /\ pc' = "initialize"
    /\ result' = Running
    /\ UNCHANGED <<initialized, buffer, backend, idx, iter, current_val, poll>>

(* let mut file = File::create("dump.bin")?; *)
MainCreateFile ==
    /\ op = "init"
    /\ pc = "idle"
    /\ Try(result)
    /\ op' = "File::create"
    /\ \/ args' = [file |-> <<>>] /\ result' = Ok
       \/ args' = args /\ result' = IoError
    /\ UNCHANGED <<initialized, buffer, pc, idx, iter, current_val, poll,
                   before, log, backend>>

(* reader.read_page(page_num, &mut buf)?: the next value of the iterator *)
MainReadPage ==
    /\ op \in {"File::create", "write_all"}
    /\ pc = "idle"
    /\ Try(result)
    /\ Len(args.file) < DumpSteps
    /\ Len(args.file) < MaxDumpPages
    /\ op' = "read_page"
    /\ args' = [page_number |-> DumpPageNum(Len(args.file)), file |-> args.file]
    /\ pc' = "rp_status_clear"
    /\ result' = Running
    /\ log' = <<>>
    /\ before' = buffer
    /\ UNCHANGED <<initialized, buffer, idx, iter, current_val, poll, backend>>

(* file.write_all(&buf)?; *)
MainWriteAll ==
    /\ op = "read_page"
    /\ pc = "idle"
    /\ Try(result)
    /\ op' = "write_all"
    /\ \/ args' = [file |-> Append(args.file, buffer)] /\ result' = Ok
       \/ /\ result' = IoError
          /\ \/ args' = [file |-> args.file]
             \/ \E n \in PartialWrites :
                   args' = [file |-> Append(args.file, SubSeq(buffer, 1, n))]
    /\ UNCHANGED <<initialized, buffer, pc, idx, iter, current_val, poll,
                   before, log, backend>>

NextMain ==
    \/ MainInit
    \/ InitInitialize
    \/ InitCommandWrite
    \/ SanityWrite
    \/ SanityRead
    \/ InitSequenceA
    \/ InitTraining
    \/ InitSequenceB
    \/ InitDone
    \/ MainCreateFile
    \/ MainReadPage
    \/ RpStatusClear
    \/ RpSetArgument
    \/ RpTransferConfig
    \/ RpAckDataReady
    \/ RpReadData
    \/ RpReadStatus
    \/ RpAckComplete
    \/ PollRead
    \/ MainWriteAll

SpecMain == Init /\ [][NextMain]_vars

----------------------------------------------------------------------------
(* i2c/src/isd9160.rs: Isd9160 as std::io::Seek and std::io::Read.  The    *)
(* struct (read_chunk_size, position) is the object under test and is      *)
(* held in backend; log holds the I2C transfers of the running call.       *)
FLASH_SIZE == 148480
STATUS_PREFIX_SZ == 2

(* transfers of one call kept in the log *)
MaxLogged == 2

(* 64-bit values: b * 2^63 + d with d small against 2^63 *)
W64(b, d) == [b |-> b, d |-> d]
N(n) == W64(0, n)
I64_MAX == W64(1, -1)
I64_MIN == W64(-1, 0)
U64_MAX == W64(2, -1)
WLt(x, y) == x.b < y.b \/ (x.b = y.b /\ x.d < y.d)
WLe(x, y) == x = y \/ WLt(x, y)
WAdd(x, y) == W64(x.b + y.b, x.d + y.d)

(* u64 as i64 and i64 as u64: two's complement *)
AsI64(x) == IF WLt(I64_MAX, x) THEN W64(x.b - 2, x.d) ELSE x
AsU64(x) == IF WLt(x, N(0)) THEN W64(x.b + 2, x.d) ELSE x

(* i64::checked_add *)
checked_add(x, y) ==
    LET sum == WAdd(x, y)
    IN  IF WLt(sum, I64_MIN) \/ WLt(I64_MAX, sum) THEN None ELSE Some(sum)

(* usize::min *)
min(x, y) == IF y < x THEN y ELSE x

InvalidInput(msg) == [kind |-> "InvalidInput", msg |-> msg]

Isd9160New == [kind |-> "isd9160", read_chunk_size |-> 4 * 16, position |-> N(0)]
IsIsd == backend.kind = "isd9160"
position == backend.position
read_chunk_size == backend.read_chunk_size

SeekStart(offset) == [whence |-> "Start", offset |-> offset]
SeekEnd(offset) == [whence |-> "End", offset |-> offset]
SeekCurrent(offset) == [whence |-> "Current", offset |-> offset]

QuarterFlash == FLASH_SIZE \div 4

SeekInputs ==
    { SeekStart(N(0)), SeekStart(N(FLASH_SIZE - 100)), SeekStart(N(FLASH_SIZE)),
      SeekStart(N(FLASH_SIZE + 1)), SeekStart(U64_MAX),
      SeekEnd(N(0)), SeekEnd(N(-100)), SeekEnd(N(1)), SeekEnd(N(-FLASH_SIZE - 1)),
      SeekEnd(I64_MAX), SeekEnd(I64_MIN),
      SeekCurrent(N(0)), SeekCurrent(N(QuarterFlash)), SeekCurrent(N(-QuarterFlash)),
      SeekCurrent(I64_MAX), SeekCurrent(I64_MIN) }

ChunkSizes == {0, 4 * 16, QuarterFlash - 256}
BufLens == {0, QuarterFlash, FLASH_SIZE + 7}

(* the position and the result of seek(pos) from position pos0: the range  *)
(* check skipped, position assigned whatever new_pos is                    *)
seek_unchecked(pos0, pos) ==
    LET np == CASE pos.whence = "Start" -> Some(pos.offset)
                [] pos.whence = "End" -> checked_add(N(FLASH_SIZE), pos.offset)
                [] pos.whence = "Current" -> checked_add(AsI64(pos0), pos.offset)
    IN  IF ~np.some
        THEN [position |-> pos0, result |-> InvalidInput("Seek out of bounds")]
        ELSE [position |-> AsU64(np.value), result |-> OkValue(AsU64(np.value))]

(* the position and the result of seek(pos) from position pos0 *)
seek(pos0, pos) ==
    LET np == CASE pos.whence = "Start" -> Some(pos.offset)
                [] pos.whence = "End" -> checked_add(N(FLASH_SIZE), pos.offset)
                [] pos.whence = "Current" -> checked_add(AsI64(pos0), pos.offset)
    IN  IF ~np.some
        THEN [position |-> pos0, result |-> InvalidInput("Seek out of bounds")]
        ELSE IF pos.whence # "Start" /\ WLt(np.value, N(0))
        THEN [position |-> pos0, result |-> InvalidInput("Seek before start")]
        ELSE IF WLt(N(FLASH_SIZE), AsU64(np.value))
        THEN [position |-> pos0, result |-> InvalidInput("Seek past end of flash")]
        ELSE [position |-> AsU64(np.value), result |-> OkValue(AsU64(np.value))]

SetChunkSize ==
    /\ CanCall
    /\ \E value \in ChunkSizes :
          /\ args' = [value |-> value]
          /\ backend' = [backend EXCEPT !.read_chunk_size = value]
    /\ op' = "set_chunk_size"
    /\ log' = <<>>
    /\ Return(Ok)
    /\ UNCHANGED <<initialized, buffer, before>>

Seek ==
    /\ CanCall
    /\ \E pos \in SeekInputs :
          LET out == seek(position, pos) IN
          /\ args' = [pos |-> pos, start |-> position]
          /\ backend' = [backend EXCEPT !.position = out.position]
          /\ Return(out.result)
    /\ op' = "seek"
    /\ log' = <<>>
    /\ UNCHANGED <<initialized, buffer, before>>

(* read up to the while loop *)
CallRead ==
    /\ CanCall
    /\ op' = "read"
    /\ log' = <<>>
    /\ \E buf_len \in BufLens :
          IF WLe(N(FLASH_SIZE), position)
          THEN /\ args' = [buf_len |-> buf_len, start |-> position,
                           to_read |-> 0, total_read |-> 0]
               /\ Return(OkValue(0))
          ELSE LET max_len == FLASH_SIZE - position.d IN
               /\ args' = [buf_len |-> buf_len, start |-> position,
                           to_read |-> min(buf_len, max_len), total_read |-> 0]
               /\ pc' = "read_loop"
               /\ result' = Running
               /\ UNCHANGED <<idx, iter, current_val, poll>>
    /\ UNCHANGED <<initialized, buffer, before, backend>>

(* while total_read < to_read *)
ReadLoop ==
    /\ pc = "read_loop"
    /\ IF args.total_read < args.to_read
       THEN /\ Goto("read_data")
            /\ UNCHANGED <<idx, iter, current_val, poll>>
       ELSE Return(OkValue(args.total_read))
    /\ UNCHANGED <<initialized, buffer, op, args, before, log, backend>>

(* the loop body: read_data makes one write_read transfer of               *)
(* read_chunk_size + 2 bytes and panics (expect) when the transfer fails;  *)
(* chunk_end bytes of the chunk are copied and position advances           *)
IsdReadData ==
    /\ pc = "read_data"
    /\ LET chunk_end == min(args.to_read - args.total_read, read_chunk_size)
           transfer == Entry("write_read", position,
                             read_chunk_size + STATUS_PREFIX_SZ, "Ok")
       IN  \/ /\ log' = IF Len(log) < MaxLogged THEN Append(log, transfer) ELSE log
              /\ backend' = [backend EXCEPT !.position = WAdd(@, N(chunk_end))]
              /\ args' = [args EXCEPT !.total_read = @ + chunk_end]
              /\ Goto("read_loop")
              /\ UNCHANGED <<idx, iter, current_val, poll>>
           \/ /\ log' = IF Len(log) < MaxLogged
                        THEN Append(log, [transfer EXCEPT !.res = "Err"])
                        ELSE log
              /\ Return(Panic)
              /\ UNCHANGED <<backend, args>>
    /\ UNCHANGED <<initialized, buffer, op, before>>

InitIsd ==
    /\ initialized = FALSE
    /\ buffer = ZeroPage
    /\ op = "new"
    /\ pc = "idle"
    /\ idx = 0
    /\ iter = 0
    /\ current_val = NoVal
    /\ poll = NoPoll
    /\ args = NoArgs
    /\ before = ZeroPage
    /\ log = <<>>
    /\ result = [kind |-> "none"]
    /\ backend = Isd9160New

NextIsd ==
    \/ SetChunkSize
    \/ Seek
    \/ CallRead
    \/ ReadLoop
    \/ IsdReadData

SpecIsd == InitIsd /\ [][NextIsd]_vars

(* a read that has been entered keeps running *)
SpecIsdLive == InitIsd /\ [][NextIsd]_vars /\ WF_vars(ReadLoop) /\ WF_vars(IsdReadData)

----------------------------------------------------------------------------
(* write_register of a concrete transport: the bits it clocks out *)
ApplyWriteRegisterFrame ==
    /\ "transport" \in DOMAIN args
    /\ Apply("write_register_frame",
             CASE args.transport = "ftdi" ->
                    FtdiBackend_write_register(args.register, args.data)
               [] args.transport = "eh0" ->
                    EhSpiBackend_write_register(args.register, args.data, args.order)
               [] args.transport = "eh1" ->
                    Eh1SpiBackend_write_register(args.register, args.data, args.order))

(* SpiBackend::execute_transaction on the built transaction *)
ExecuteTransaction ==
    /\ pc = "apply"
    /\ IsTxnInput
    /\ op' = "execute_transaction"
    /\ LET txn == Built IN
       CASE txn.variant = "Write" ->
              \/ /\ Wrote(txn.register, txn.data)
                 /\ Return(OkValue(None))
              \/ FailWith("write", txn.register, txn.data)
         [] txn.variant = "Read" ->
              \/ \E value \in ReadVals(txn.register, U32(\h1234, \h5678)) :
                    /\ DidRead(txn.register, value)
                    /\ Return(OkValue(Some(to_le_bytes(value))))
              \/ FailWith("read", txn.register, NoVal)
         [] txn.variant = "ReadData" ->
              \/ \E data \in DataVals :
                    /\ log' = Append(log, Entry("read_data", txn.register, data, "Ok"))
                    /\ backend' = backend
                    /\ Return(OkValue(Some(FillBuffer(ZeroPage, data))))
              \/ FailWith("read_data", txn.register, NoVal)
    /\ UNCHANGED <<initialized, buffer, args, before>>

NextProto ==
    \/ ApplyBits
    \/ ApplyAddress
    \/ ApplyFromAddress
    \/ ApplyTransaction
    \/ ApplyWriteRegisterFrame
    \/ ApplySetDataBitsSingle
    \/ ExecuteTransaction

SpecProto == InitProto /\ [][NextProto]_vars

----------------------------------------------------------------------------
Next ==
    \/ CallInit
    \/ InitInitialize
    \/ InitCommandWrite
    \/ SanityWrite
    \/ SanityRead
    \/ InitSequenceA
    \/ InitTraining
    \/ InitSequenceB
    \/ InitDone
    \/ CallPollForValue
    \/ PollRead
    \/ CallReadPage
    \/ RpStatusClear
    \/ RpSetArgument
    \/ RpTransferConfig
    \/ RpAckDataReady
    \/ RpReadData
    \/ RpReadStatus
    \/ RpAckComplete
    \/ CallErasePage
    \/ EpStatusClear
    \/ EpSetArgument
    \/ EpTransferConfig
    \/ EpAckComplete
    \/ CallWritePage
    \/ WpStatusClear
    \/ WpSetArgument
    \/ WpTransferConfig
    \/ WpAckComplete
    \/ CallWriteRegister
    \/ WriteRegister
    \/ CallReadRegister
    \/ ReadRegister
    \/ CallReadData
    \/ ReadData

Spec == Init /\ [][Next]_vars

(* the three page operations alone *)
NextPages ==
    \/ CallReadPage
    \/ RpStatusClear
    \/ RpSetArgument
    \/ RpTransferConfig
    \/ RpAckDataReady
    \/ RpReadData
    \/ RpReadStatus
    \/ RpAckComplete
    \/ CallErasePage
    \/ EpStatusClear
    \/ EpSetArgument
    \/ EpTransferConfig
    \/ EpAckComplete
    \/ CallWritePage
    \/ WpStatusClear
    \/ WpSetArgument
    \/ WpTransferConfig
    \/ WpAckComplete
    \/ PollRead

SpecPages == Init /\ [][NextPages]_vars

(* erase_page, then write_page of the same page on a device that behaves   *)
(* the same; read_data in between changes the buffer write_page is given   *)
NextStubPair ==
    \/ CallReadData
    \/ ReadData
    \/ CallErasePage
    \/ EpStatusClear
    \/ EpSetArgument
    \/ EpTransferConfig
    \/ EpAckComplete
    \/ CallWritePageAfterErase
    \/ WpStatusClear /\ SameDeviceBehaviour'
    \/ WpSetArgument /\ SameDeviceBehaviour'
    \/ WpTransferConfig /\ SameDeviceBehaviour'
    \/ WpAckComplete /\ SameDeviceBehaviour'
    \/ PollRead /\ SameDeviceBehaviour'

SpecStubPair == Init /\ [][NextStubPair]_vars

SpecDirect == Init /\ [][NextDirect]_vars

(* every public operation of EmmcReader *)
NextDriver ==
    \/ Next
    \/ CallReadResponse
    \/ ReadResponse

SpecDriver == Init /\ [][NextDriver]_vars

(* the driver on MockBackend, as the unit test builds it *)
InitMock ==
    /\ initialized = FALSE
    /\ buffer = ZeroPage
    /\ op = "new"
    /\ pc = "idle"
    /\ idx = 0
    /\ iter = 0
    /\ current_val = NoVal
    /\ poll = NoPoll
    /\ args = NoArgs
    /\ before = ZeroPage
    /\ log = <<>>
    /\ result = [kind |-> "none"]
    /\ backend = MockBackendNew

NextMock ==
    \/ CallWriteRegister
    \/ WriteRegister
    \/ CallReadRegister
    \/ CallReadBack
    \/ ReadRegister

SpecMock == InitMock /\ [][NextMock]_vars

(* init() and the direct register calls on the loopback transport *)
NextMockInit ==
    \/ CallWriteRegister
    \/ WriteRegister
    \/ CallReadRegister
    \/ CallReadBack
    \/ ReadRegister
    \/ CallInit
    \/ InitInitialize
    \/ InitCommandWrite
    \/ SanityWrite
    \/ SanityRead
    \/ InitSequenceA

SpecMockInit == InitMock /\ [][NextMockInit]_vars

(* init() alone with the training loop as the code runs it; the thread     *)
(* that called init() keeps running, so a step that can be taken is taken  *)
NextInit ==
    \/ CallInit
    \/ InitInitialize
    \/ InitCommandWrite
    \/ SanityWrite
    \/ SanityRead
    \/ InitSequenceA
    \/ InitTrainingUnbounded
    \/ InitSequenceB
    \/ InitDone

SpecInitLive == Init /\ [][NextInit]_vars /\ WF_vars(NextInit)

----------------------------------------------------------------------------
(* Properties of init and sanity_check.                                    *)

Min(a, b) == IF a < b THEN a ELSE b

(* the log entries a script segment produces when every assert passes *)
ScriptOps(script) ==
    [i \in 1..Len(script) |->
        IF script[i].k = "W" THEN WriteOp(script[i].reg, script[i].val)
                             ELSE ReadOp(script[i].reg, script[i].val)]

(* one iteration of the training loop whose Response0And1 read returned res *)
TrainingOps(res) ==
    SubSeq(ScriptOps(TrainingBody), 1, Len(TrainingBody) - 1)
        \o <<ReadOp("Response0And1", res)>>

RECURSIVE Repeat(_, _)
Repeat(ops, n) == IF n = 0 THEN <<>> ELSE ops \o Repeat(ops, n - 1)

(* the eight operations of a passing sanity_check *)
SanityTrips ==
    << WriteOp("Argument", U32(\h1234, \h5678)), ReadOp("Argument", U32(\h1234, \h5678)),
       WriteOp("Argument", U32(\hEDCB, \hA987)), ReadOp("Argument", U32(\hEDCB, \hA987)),
       WriteOp("Argument", U32(\h1234, \h5678)), ReadOp("Argument", U32(\h1234, \h5678)),
       WriteOp("Argument", U32(\hEDCB, \hA987)), ReadOp("Argument", U32(\hEDCB, \hA987)) >>

(* what the transport sees during an init() in which every step succeeds   *)
(* and the training loop runs n iterations                                 *)
FullInitLog(n) ==
    << Entry("initialize", "-", NoVal, "Ok"),
       WriteOp("InitCommand", U32(0, 3)) >>
    \o SanityTrips
    \o ScriptOps(InitScriptA)
    \o Repeat(TrainingOps(U32(\h00FF, \h8080)), n - 1)
    \o TrainingOps(U32(\hC0FF, \h8080))
    \o ScriptOps(InitScriptB)

(* this init() call started with initialized = FALSE and returned Ok *)
InitCompleted == op = "init" /\ pc = "idle" /\ result = Ok /\ log # <<>>

(* C1: an init() that starts uninitialized and succeeds has shown the      *)
(* transport initialize(), then the write InitCommand=3, then the four     *)
(* sanity round trips on Argument, then the init_sequence script, in this  *)
(* order and nothing else; initialized is false while the call is running  *)
(* and true only once the whole sequence has been issued.                  *)
C1_InitOrder ==
    /\ InitCompleted =>
         /\ initialized
         /\ \E n \in 2..MaxTraining : log = FullInitLog(n)
    /\ (op = "init" /\ pc # "idle") =>
         /\ ~initialized
         /\ \E n \in 2..MaxTraining :
              /\ Len(log) <= Len(FullInitLog(n))
              /\ \A i \in 1..Len(log) :
                   /\ log[i].kind = FullInitLog(n)[i].kind
                   /\ log[i].reg = FullInitLog(n)[i].reg
                   /\ log[i].kind = "write" => log[i].val = FullInitLog(n)[i].val

C1_Witness ==
    InitCompleted /\ initialized /\ log = FullInitLog(MaxTraining)

(* the i-th operation of the running init() failed: the transport returned *)
(* an error, or a sanity read on Argument differs from the value written   *)
(* just before it                                                          *)
SanityReadAt(i) ==
    /\ i \in {4, 6, 8, 10}
    /\ i <= Len(log)
    /\ log[i].kind = "read" /\ log[i].reg = "Argument" /\ log[i].res = "Ok"
    /\ log[i - 1].kind = "write" /\ log[i - 1].reg = "Argument"
StepFailed(i) ==
    \/ log[i].res # "Ok"
    \/ SanityReadAt(i) /\ log[i].val # log[i - 1].val

(* C2: when a step of init() fails (a transport error at any primitive, a  *)
(* sanity mismatch, a failed assert of init_sequence) the call has ended   *)
(* without Ok and initialized is false; initialized changes to true only   *)
(* at the end of an init() call whose every step succeeded.                *)
C2_FailedInitStaysUninitialized ==
    /\ [](op = "init" =>
            /\ (\E i \in 1..Len(log) : StepFailed(i)) =>
                  pc = "idle" /\ result # Ok /\ ~initialized
            /\ (pc = "idle" /\ result # Ok) => ~initialized)
    /\ [][(~initialized /\ initialized') =>
            /\ op = "init" /\ op' = "init"
            /\ result' = Ok
            /\ \E n \in 2..MaxTraining : log' = FullInitLog(n)]_vars

C2_Witness ==
    /\ op = "init" /\ pc = "idle" /\ ~initialized
    /\ result = Panic
    /\ Len(log) > 10 + Len(InitScriptA) + Len(TrainingBody)

(* C3: init() on an initialized driver returns Ok at once, issues no       *)
(* transport operation and changes neither initialized nor the buffer.     *)
C3_InitIdempotent ==
    [][(pc = "idle" /\ initialized /\ op' = "init") =>
          /\ pc' = "idle"
          /\ result' = Ok
          /\ log' = <<>>
          /\ initialized' = initialized
          /\ buffer' = buffer]_vars

C3_Witness ==
    initialized /\ op = "init" /\ pc = "idle" /\ result = Ok /\ log = <<>>

(* C4: a sanity read that differs from the value just written is the last  *)
(* operation of the call: init() has returned SanityCheckFailed with       *)
(* expected = the constant written and actual = the value read, nothing of *)
(* init_sequence was issued and initialized is false.                      *)
C4_SanityMismatchAborts ==
    /\ op = "init" =>
         \A i \in 1..Len(log) :
            (SanityReadAt(i) /\ log[i].val # log[i - 1].val) =>
                /\ Len(log) = i
                /\ pc = "idle"
                /\ result.kind = "SanityCheckFailed"
                /\ result.expected = log[i - 1].val
                /\ result.expected =
                      IF i \in {4, 8} THEN U32(\h1234, \h5678) ELSE U32(\hEDCB, \hA987)
                /\ result.actual = log[i].val
                /\ ~initialized
    /\ result.kind = "SanityCheckFailed" =>
         /\ op = "init"
         /\ SanityReadAt(Len(log))
         /\ log[Len(log)].val # log[Len(log) - 1].val

C4_Witness ==
    /\ op = "init" /\ result.kind = "SanityCheckFailed"
    /\ Len(log) = 8
    /\ result.expected = U32(\h1234, \h5678)

(* the Argument register has echoed every sanity write so far and no       *)
(* primitive has failed                                                    *)
EchoSoFar ==
    \A i \in 1..Min(Len(log), 10) :
        /\ log[i].res = "Ok"
        /\ SanityReadAt(i) => log[i].val = log[i - 1].val

(* C5: with an echoing Argument register sanity_check never fails, issues  *)
(* its operations in the order write 0x12345678, read, write 0xEDCBA987,   *)
(* read, write 0x12345678, read, write 0xEDCBA987, read, and is over after *)
(* exactly these four round trips.                                         *)
C5_SanityEcho ==
    (op = "init" /\ EchoSoFar) =>
        /\ result.kind # "SanityCheckFailed"
        /\ \A i \in 3..Min(Len(log), 10) : log[i] = SanityTrips[i - 2]
        /\ pc \in {"sanity_write", "sanity_read"} => Len(log) < 10
        /\ (pc \in {"sanity_write", "sanity_read"} /\ Len(log) >= 2) =>
              idx = ((Len(log) - 2) \div 2) + 1
        /\ Len(log) > 10 =>
              ~(log[11].kind \in {"read", "write"} /\ log[11].reg = "Argument"
                /\ log[11].val \in {U32(\h1234, \h5678), U32(\hEDCB, \hA987)})

C5_Witness ==
    /\ op = "init" /\ pc = "seq_a" /\ idx = 1
    /\ SubSeq(log, 3, 10) = SanityTrips
    /\ Len(log) = 10

----------------------------------------------------------------------------
(* Properties of poll_for_value and read_page.                             *)

(* every operation logged so far is a successful read of register r *)
OnlyReadsOf(r) ==
    \A i \in 1..Len(log) :
        log[i].kind = "read" /\ log[i].reg = r /\ log[i].res = "Ok"

(* positions of the log at which a successful read returned v *)
Hits(v) == {i \in 1..Len(log) : log[i].kind = "read" /\ log[i].res = "Ok" /\ log[i].val = v}

(* C6: a poll_for_value(register, expected) whose reads all return values  *)
(* other than expected ends with Timeout after exactly 10 reads of that    *)
(* register and nothing else; it never issues an 11th operation and never  *)
(* reports Timeout earlier.                                                *)
C6_PollTimeout ==
    op = "poll_for_value" =>
        /\ Len(log) <= 10
        /\ \A i \in 1..Len(log) : log[i].kind = "read" /\ log[i].reg = args.register
        /\ (OnlyReadsOf(args.register) /\ Hits(args.value) = {}) =>
              /\ pc = "idle" <=> Len(log) = 10
              /\ pc = "idle" => result = Timeout
        /\ result = Timeout =>
              /\ Len(log) = 10
              /\ OnlyReadsOf(args.register)
              /\ Hits(args.value) = {}

C6_Witness ==
    /\ op = "poll_for_value" /\ pc = "idle" /\ result = Timeout
    /\ Len(log) = 10
    /\ args.register = "PresentState"
    /\ \A i \in 1..10 : log[i].val = DATA_READY

(* C7: when the k-th read of poll_for_value is the first to return the     *)
(* expected value, the call has returned Ok and that read is the last      *)
(* operation issued: k reads in all, 1 <= k <= 10.                         *)
C7_PollFirstMatch ==
    op = "poll_for_value" =>
        /\ \A k \in Hits(args.value) :
              /\ k = Len(log)
              /\ k <= 10
              /\ pc = "idle"
              /\ result = Ok
        /\ (pc = "idle" /\ result = Ok) =>
              /\ Hits(args.value) = {Len(log)}
              /\ OnlyReadsOf(args.register)

C7_Witness ==
    /\ op = "poll_for_value" /\ pc = "idle" /\ result = Ok
    /\ Len(log) = 10
    /\ Hits(args.value) = {10}

(* the log is read_page's sequence with a reads in step 4 and b in step 5 *)
ReadPageShape(a, b) ==
    LET n == 3 + a + b
        IsRead(i) == log[i].kind = "read" /\ log[i].reg = "InterruptStatus"
                        /\ log[i].res = "Ok"
    IN  /\ Len(log) = n + 4
        /\ log[1] = WriteOp("InterruptStatus", U32(\hFFFF, \hFFFF))
        /\ log[2] = WriteOp("Argument", args.page_number)
        /\ log[3] = WriteOp("CommandAndTransferMode", U32(\h113A, \h0010))
        /\ \A i \in 4..n : IsRead(i)
        /\ log[3 + a].val = U32(0, \h21)
        /\ log[n].val = U32(0, \h20)
        /\ log[n + 1] = WriteOp("InterruptStatus", U32(0, \h20))
        /\ log[n + 2].kind = "read_data"
        /\ log[n + 2].reg = "DataFifo"
        /\ log[n + 2].res = "Ok"
        /\ Len(log[n + 2].val) = 512
        /\ IsRead(n + 3)
        /\ log[n + 4] = WriteOp("InterruptStatus", U32(0, \h2))

ReadPageOk == op = "read_page" /\ pc = "idle" /\ result = Ok

(* C8: a read_page that returned Ok issued exactly: write InterruptStatus= *)
(* 0xFFFFFFFF; write Argument=page_number; write CommandAndTransferMode=   *)
(* 0x113A0010; 1..10 reads of InterruptStatus ending with 0x21; 1..10      *)
(* reads of InterruptStatus ending with 0x20; write InterruptStatus=0x20;  *)
(* one read_data of 512 bytes from DataFifo; one read of InterruptStatus;  *)
(* write InterruptStatus=0x2.                                              *)
C8_ReadPageSequence ==
    ReadPageOk => \E a \in 1..10, b \in 1..10 : ReadPageShape(a, b)

C8_Witness ==
    /\ ReadPageOk
    /\ ReadPageShape(10, 10)
    /\ args.page_number = U32(\hFFFF, \hFE00)

(* positions of the read_data operations of the call *)
DataReads == {i \in 1..Len(log) : log[i].kind = "read_data"}

(* C9: after a read_page that returned Ok the buffer holds the 512 bytes   *)
(* delivered by the one read_data of the call and the last operation the   *)
(* transport received is the write InterruptStatus=0x2; whatever value the *)
(* step-7 read of InterruptStatus returns, the call goes on to that write  *)
(* with the buffer as filled.                                              *)
C9_ReadPageResult ==
    /\ [](ReadPageOk =>
            /\ Cardinality(DataReads) = 1
            /\ \A i \in DataReads :
                  /\ log[i].reg = "DataFifo"
                  /\ buffer = log[i].val
                  /\ Len(buffer) = 512
            /\ log[Len(log)] = WriteOp("InterruptStatus", U32(0, \h2)))
    /\ [][(pc = "rp_read_status" /\ Len(log') = Len(log) + 1
              /\ log'[Len(log')].res = "Ok") =>
            /\ pc' = "rp_ack_complete"
            /\ buffer' = buffer]_vars

C9_Witness ==
    /\ ReadPageOk
    /\ buffer = PageOf(7)
    /\ before # buffer
    /\ log[Len(log) - 1].kind = "read"
    /\ log[Len(log) - 1].val # U32(0, \h2)

(* C10 as claimed: whenever read_page returns an error the caller's buffer *)
(* is what it was before the call.                                         *)
C10_ReadPageAllOrNothing ==
    (op = "read_page" /\ pc = "idle" /\ result # Ok) => buffer = before

----------------------------------------------------------------------------
(* C11: in every driver operation a transport primitive that fails is the *)
(* last transport operation of the call (nothing is issued after it and    *)
(* it is not re-issued, also inside poll_for_value), and the call has      *)
(* returned exactly the error of that primitive.                           *)
FailedAt(i) == log[i].res # "Ok"

C11_ErrorPropagates ==
    \A i \in 1..Len(log) :
        FailedAt(i) => /\ i = Len(log)
                       /\ pc = "idle"
                       /\ result = Err(log[i].res)

(* erase_page that failed on a read inside its second poll_for_value *)
C11_Witness ==
    /\ op = "erase_page"
    /\ pc = "idle"
    /\ Len(log) > 5
    /\ FailedAt(Len(log))
    /\ log[Len(log)].kind = "read"
    /\ log[Len(log) - 1] = ReadOp("InterruptStatus", Stray(TRANSFER_COMPLETE))
    /\ result = Err("DeviceTimeout")

----------------------------------------------------------------------------
(* C12: every call of read_page, erase_page or write_page terminates      *)
(* whatever the device answers: each step of a running call issues exactly *)
(* one transport operation and a running call always has a step to take,   *)
(* read_page never issues more than 27 transport operations and erase_page *)
(* and write_page never more than 24, and the call returns Timeout exactly *)
(* when the value of its last poll did not appear in MAX_POLLS reads.      *)
PageOps == {"read_page", "erase_page", "write_page"}

MaxTransportOps == IF op = "read_page" THEN 27 ELSE 24

(* the value awaited by the poll that produced the last entries of log *)
LastPollTarget ==
    IF log[Len(log) - 10].kind = "write" THEN CMD_ACCEPTED
    ELSE IF op = "read_page" THEN DATA_READY ELSE TRANSFER_COMPLETE

PolledValueNeverAppeared ==
    /\ Len(log) >= 13
    /\ \A i \in (Len(log) - 9)..Len(log) :
          /\ log[i].kind = "read"
          /\ log[i].reg = "InterruptStatus"
          /\ log[i].res = "Ok"
          /\ log[i].val # LastPollTarget

C12_Bounded ==
    op \in PageOps =>
        /\ Len(log) <= MaxTransportOps
        /\ pc # "idle" => ENABLED Next
        /\ pc = "idle" => (result = Timeout <=> PolledValueNeverAppeared)

C12_Progress ==
    (op \in PageOps /\ pc # "idle") => Len(log') = Len(log) + 1

C12_PageOpsTerminate == []C12_Bounded /\ [][C12_Progress]_vars

(* a read_page that needed all ten reads of both polls and succeeded *)
C12_Witness ==
    /\ op = "read_page"
    /\ pc = "idle"
    /\ result = Ok
    /\ Len(log) = 27

----------------------------------------------------------------------------
(* C13: init() terminates whatever the device answers: once init_sequence *)
(* has entered its memory-training loop it eventually leaves it (by the    *)
(* changed value, by an error, or by a Timeout after a maximum number of   *)
(* iterations).                                                            *)
InTrainingLoop == op = "init" /\ pc = "training"

C13_TrainingTerminates == InTrainingLoop ~> ~InTrainingLoop

----------------------------------------------------------------------------
(* C14: erase_page and write_page are unsupported: whatever the page       *)
(* number, the buffer and the device's answers, a call of either never     *)
(* returns Ok.                                                             *)
StubOps == {"erase_page", "write_page"}

C14_StubsNeverOk == op \in StubOps => result # Ok

----------------------------------------------------------------------------
(* C15: for every variant r of Register, from_address(r.address()) is     *)
(* Some(r): whenever from_address has been applied to the address of a     *)
(* register it has returned that register.                                 *)
C15_FromAddressRoundTrip ==
    op = "from_address" =>
        \A r \in RegisterNames :
            address(r) = args.addr => result = OkValue(Some(r))

----------------------------------------------------------------------------
(* C16: for every 8-bit address a, from_address(a) returns normally; it    *)
(* returns Some(r) only for a register r whose address is a, so it returns *)
(* None for an address of no register; and no two registers have the same  *)
(* address.                                                                *)
C16_FromAddressSound ==
    /\ op = "from_address" =>
          /\ result.kind = "Ok"
          /\ result.value.some =>
                /\ result.value.value \in RegisterNames
                /\ address(result.value.value) = args.addr
          /\ (\A r \in RegisterNames : address(r) # args.addr) => result.value = None
    /\ op = "address" =>
          /\ result.value \in Addresses
          /\ \A r \in RegisterNames : address(r) = result.value => r = args.register

C16_Witness ==
    /\ op = "from_address"
    /\ args.addr = \h44
    /\ result = OkValue(Some("InitCommand"))

----------------------------------------------------------------------------
(* C17: a transaction built by write(r, d) has command Write, register r,  *)
(* write_data Some(d) and no response size.                                *)
C17_WriteTransaction ==
    (op = "transaction" /\ args.ctor = "write") =>
        /\ result.value.txn = [variant |-> "Write", register |-> args.register, data |-> args.data]
        /\ result.value.command = "Write"
        /\ result.value.register = args.register
        /\ result.value.write_data = Some(args.data)
        /\ result.value.response_size = None

C17_Witness ==
    /\ op = "transaction"
    /\ args = [ctor |-> "write", register |-> "Argument", data |-> U32(\hDEAD, \hBEEF)]
    /\ result.value.write_data = Some(U32(\hDEAD, \hBEEF))

----------------------------------------------------------------------------
(* C18: a transaction built by read(r) or read_data(r) has command Read,   *)
(* register r and no write data; its response size is Register (4 bytes)   *)
(* for read and Page (512 bytes) for read_data.                            *)
C18_ReadTransactions ==
    (op = "transaction" /\ args.ctor \in {"read", "read_data"}) =>
        /\ result.value.command = "Read"
        /\ result.value.register = args.register
        /\ result.value.write_data = None
        /\ args.ctor = "read" =>
              /\ result.value.txn.variant = "Read"
              /\ result.value.response_size = Some("Register")
              /\ result.value.bytes = Some(4)
        /\ args.ctor = "read_data" =>
              /\ result.value.txn.variant = "ReadData"
              /\ result.value.response_size = Some("Page")
              /\ result.value.bytes = Some(512)

C18_Witness ==
    /\ op = "transaction"
    /\ args = [ctor |-> "read_data", register |-> "DataFifo"]
    /\ result.value.bytes = Some(512)

----------------------------------------------------------------------------
(* C19: execute_transaction issues exactly one transport primitive, the    *)
(* one of the transaction's variant on the transaction's register (with    *)
(* the transaction's data for a write); a failure of the primitive is      *)
(* returned unchanged; on success the reply has as many bytes as           *)
(* response_size says: none for Write, the four little-endian bytes of the *)
(* value read for Read, the 512 bytes delivered for ReadData.              *)
PrimitiveOf(txn) ==
    CASE txn.variant = "Write" -> "write"
      [] txn.variant = "Read" -> "read"
      [] txn.variant = "ReadData" -> "read_data"

(* bs are the bytes of the 32-bit value v, least significant first *)
LittleEndian(bs, v) ==
    /\ Len(bs) = 4
    /\ \A i \in 1..4 : bs[i] \in 0..255
    /\ v[2] = bs[1] + 256 * bs[2]
    /\ v[1] = bs[3] + 256 * bs[4]

C19_ExecuteTransaction ==
    op = "execute_transaction" =>
        LET txn == Built
            e == log[1]
            size == response_size(txn)
        IN  /\ Len(log) = 1
            /\ e.kind = PrimitiveOf(txn)
            /\ e.reg = register(txn)
            /\ txn.variant = "Write" => e.val = txn.data
            /\ e.res # "Ok" => result = Err(e.res)
            /\ e.res = "Ok" =>
                  /\ result.kind = "Ok"
                  /\ result.value.some = size.some
                  /\ size.some => Len(result.value.value) = bytes(size.value)
                  /\ txn.variant = "Read" => LittleEndian(result.value.value, e.val)
                  /\ txn.variant = "ReadData" => result.value.value = e.val

C19_Witness ==
    /\ op = "execute_transaction"
    /\ args = [ctor |-> "read", register |-> "Argument"]
    /\ result = OkValue(Some(<<\h78, \h56, \h34, \h12>>))

----------------------------------------------------------------------------
(* C20: on the in-memory register map, read_register(r) called right       *)
(* after write_register(r, v) returns v, for every register r and value v, *)
(* without init() ever having been called; and no step of either call      *)
(* changes the initialized flag.                                           *)
ReadBackDone ==
    /\ op = "read_register"
    /\ pc = "idle"
    /\ "written" \in DOMAIN args

C20_ReadBack == ReadBackDone => result = OkValue(args.written)

C20_FlagUntouched == initialized' = initialized

C20_MockRoundTrip == []C20_ReadBack /\ [][C20_FlagUntouched]_vars

(* the unit test: 0xDEADBEEF written to Argument and read back, after an   *)
(* earlier write of another value to the same register                     *)
C20_Witness ==
    /\ ReadBackDone
    /\ ~initialized
    /\ args.register = "Argument"
    /\ result = OkValue(U32(\hDEAD, \hBEEF))
    /\ log = <<ReadOp("Argument", U32(\hDEAD, \hBEEF))>>
    /\ backend.registers = {<<address("Argument"), U32(\hDEAD, \hBEEF)>>,
                            <<address("DataFifo"), U32(\h1234, \h5678)>>}

----------------------------------------------------------------------------
(* C21: Command::Read.bits() is 0x1 and Command::Write.bits() is 0x2, the  *)
(* command field is 2 bits wide, and both values fit in it.                *)
C21_CommandBits ==
    op = "bits" =>
        /\ args.command = "Read" => result.value.bits = 1
        /\ args.command = "Write" => result.value.bits = 2
        /\ result.value.bit_length = 2
        /\ result.value.bits \in 0..(2 ^ result.value.bit_length - 1)

C21_Witness ==
    /\ op = "bits"
    /\ args.command = "Write"
    /\ result = OkValue([bits |-> 2, bit_length |-> 2])

----------------------------------------------------------------------------
(* C22: read_response(index) reads Response0And1, Response2And3,           *)
(* Response4And5, Response6And7 for index 0, 1, 2, 3 (one read, whose      *)
(* value or error it returns); for every index >= 4 it returns             *)
(* RegisterAccessFailed and the transport has seen nothing.                *)
ResponseRegisters ==
    << "Response0And1", "Response2And3", "Response4And5", "Response6And7" >>

C22_ReadResponse ==
    op = "read_response" =>
        /\ args.index <= 3 =>
              /\ pc = "idle" =>
                    /\ Len(log) = 1
                    /\ log[1].kind = "read"
                    /\ log[1].reg = ResponseRegisters[args.index + 1]
                    /\ log[1].res = "Ok" => result = OkValue(log[1].val)
                    /\ log[1].res # "Ok" => result = Err(log[1].res)
              /\ pc # "idle" => log = <<>>
        /\ args.index >= 4 =>
              /\ pc = "idle"
              /\ log = <<>>
              /\ result = Err("RegisterAccessFailed")

(* read_response(255) rejected with nothing sent to the transport *)
C22_Witness ==
    /\ op = "read_response"
    /\ args.index = 255
    /\ result = Err("RegisterAccessFailed")
    /\ log = <<>>

----------------------------------------------------------------------------
(* C23: in every call of read_page, erase_page and write_page the first    *)
(* three transport operations are the write InterruptStatus=0xFFFFFFFF,    *)
(* then the write Argument=page_number, then a write to                    *)
(* CommandAndTransferMode; nothing else is issued before or between them,  *)
(* and a later one is issued only when the earlier ones succeeded.         *)
SetupRegisters == << "InterruptStatus", "Argument", "CommandAndTransferMode" >>

C23_SetupOrder ==
    op \in PageOps =>
        /\ \A i \in 1..Min(3, Len(log)) :
              /\ log[i].kind = "write"
              /\ log[i].reg = SetupRegisters[i]
              /\ i = 1 => log[i].val = U32(\hFFFF, \hFFFF)
              /\ i = 2 => log[i].val = args.page_number
        /\ \A i \in 1..(Len(log) - 1) : log[i].res = "Ok"
        /\ \A i \in 4..Len(log) :
              log[i].kind = "write" => log[i].reg = "InterruptStatus"

(* a write_page that has issued its three set-up writes and is polling *)
C23_Witness ==
    /\ op = "write_page"
    /\ pc = "poll"
    /\ Len(log) = 3
    /\ log[2] = WriteOp("Argument", U32(\hFFFF, \hFE00))
    /\ log[3] = WriteOp("CommandAndTransferMode", U32(0, 0))

----------------------------------------------------------------------------
(* C24: the memory-training loop is left towards the rest of the script    *)
(* only by a Response0And1 read of 0xC0FF8080 in a second or later         *)
(* iteration, after the first iteration read 0xFF8080; then the transport  *)
(* has seen the six-operation cycle once per iteration.  A read of         *)
(* 0xFF8080 starts the cycle again, and a first read other than 0xFF8080   *)
(* or a later read other than the two sentinels aborts init with           *)
(* initialized still false.                                                *)
InitPrefixOps ==
    << Entry("initialize", "-", NoVal, "Ok"),
       WriteOp("InitCommand", U32(0, 3)) >>
    \o SanityTrips
    \o ScriptOps(InitScriptA)

(* the loop is at its read of Response0And1 *)
AtTrainingRead == InTrainingLoop /\ idx = Len(TrainingBody)

(* the read of this step succeeded and is the last entry of the log *)
TrainingReadLogged ==
    /\ Len(log') = Len(log) + 1
    /\ log'[Len(log')].res = "Ok"

C24_TrainingStep ==
    AtTrainingRead =>
        /\ pc' = "seq_b" =>
              /\ iter >= 2
              /\ current_val = U32(\h00FF, \h8080)
              /\ log' = InitPrefixOps
                          \o Repeat(TrainingOps(U32(\h00FF, \h8080)), iter - 1)
                          \o TrainingOps(U32(\hC0FF, \h8080))
        /\ TrainingReadLogged =>
              LET res == log'[Len(log')].val IN
              /\ res = U32(\h00FF, \h8080) =>
                    pc' = "training" /\ idx' = 1 /\ iter' = iter + 1
              /\ (res = U32(\hC0FF, \h8080) /\ iter >= 2) => pc' = "seq_b"
              /\ (res \notin {U32(\h00FF, \h8080), U32(\hC0FF, \h8080)}
                     \/ (iter = 1 /\ res # U32(\h00FF, \h8080))) =>
                    pc' = "idle" /\ result' = Panic /\ ~initialized'
        /\ (pc' = "training" /\ ~TrainingReadLogged) =>
              /\ iter = MaxTraining
              /\ idx' = 1
              /\ log' = InitPrefixOps
                          \o Repeat(TrainingOps(U32(\h00FF, \h8080)), iter - 1)

C24_TrainingLoop == [][C24_TrainingStep]_vars

(* the loop has just been left after exactly two iterations *)
C24_Witness ==
    /\ op = "init"
    /\ pc = "seq_b"
    /\ idx = 1
    /\ log = InitPrefixOps
               \o TrainingOps(U32(\h00FF, \h8080))
               \o TrainingOps(U32(\hC0FF, \h8080))

----------------------------------------------------------------------------
(* C25: when a value-asserted read of init_sequence returns a value other  *)
(* than the one the script expects at that point, init() ends at that      *)
(* read: initialized is false and nothing more happens on the transport.   *)
ScriptLabels == {"seq_a", "training", "seq_b"}

(* the script the running init_sequence is in, and its current statement *)
CurrentScript ==
    CASE pc = "seq_a" -> InitScriptA
      [] pc = "training" -> TrainingBody
      [] pc = "seq_b" -> InitScriptB

AtAssertedRead ==
    /\ op = "init"
    /\ pc \in ScriptLabels
    /\ CurrentScript[idx].k = "R"

(* the value read in this step is not the one the statement asserts; in    *)
(* the loop's last statement the asserted value depends on the iteration   *)
Mismatch(res) ==
    IF AtTrainingRead
    THEN IF iter = 1 THEN res # U32(\h00FF, \h8080)
         ELSE res \notin {U32(\h00FF, \h8080), U32(\hC0FF, \h8080)}
    ELSE res # CurrentScript[idx].val

C25_Step ==
    /\ result # Panic
    /\ (AtAssertedRead /\ TrainingReadLogged /\ Mismatch(log'[Len(log')].val)) =>
          /\ pc' = "idle"
          /\ result' = Panic
          /\ ~initialized'

C25_MismatchAborts == [][C25_Step]_vars

(* init() ended by a mismatch in the part of the script after the loop *)
C25_Witness ==
    /\ op = "init"
    /\ pc = "idle"
    /\ result = Panic
    /\ ~initialized
    /\ Len(log) > Len(InitPrefixOps) + 2 * Len(TrainingBody) + 10
    /\ log[Len(log)].kind = "read"
    /\ log[Len(log)].res = "Ok"

----------------------------------------------------------------------------
(* C26: every outcome of init() is a returned result, Ok or Err: an init() *)
(* that has ended, also one ended by a value mismatch at an asserted read  *)
(* of init_sequence, has handed a result to its caller and has not         *)
(* panicked.                                                               *)
ReturnedResults ==
    {"Ok", "FtStatus", "DeviceTimeout", "SanityCheckFailed", "Timeout",
     "InitializationFailed", "RegisterAccessFailed", "Todo"}

C26_InitReturnsResult ==
    (op = "init" /\ pc = "idle") => result.kind \in ReturnedResults

----------------------------------------------------------------------------
(* C27: on a transport that never returns Timeout itself, a driver         *)
(* operation returns Timeout only from a poll_for_value whose ten reads of *)
(* its register all succeeded with values other than the expected one;    *)
(* init() never returns Timeout.                                           *)
(* the step makes the running call return Timeout *)
ReturnsTimeout == pc # "idle" /\ result' = Timeout

(* the last ten operations are reads of the polled register that missed *)
TenMisses ==
    /\ Len(log') >= 10
    /\ \A i \in (Len(log') - 9)..Len(log') :
          /\ log'[i].kind = "read"
          /\ log'[i].reg = poll.register
          /\ log'[i].res = "Ok"
          /\ log'[i].val # poll.value

C27_TimeoutStep ==
    ReturnsTimeout =>
        /\ pc = "poll"
        /\ pc' = "idle"
        /\ op \in PageOps \cup {"poll_for_value"}
        /\ TenMisses

C27_TimeoutOnlyFromPoll ==
    /\ [](result = Timeout => (pc = "idle" /\ op # "init"))
    /\ [][C27_TimeoutStep]_vars

(* a read_page whose second poll ran out after its first poll matched *)
C27_Witness ==
    /\ op = "read_page"
    /\ result = Timeout
    /\ Len(log) = 14
    /\ log[4] = ReadOp("InterruptStatus", CMD_ACCEPTED)

----------------------------------------------------------------------------
(* C28: erase_page(page_number) issues: write InterruptStatus=0xFFFFFFFF;  *)
(* write Argument=page_number; write CommandAndTransferMode=0; 1..10 reads *)
(* of InterruptStatus ending with 0x21; 1..10 reads of InterruptStatus     *)
(* ending with 0x2; write InterruptStatus=0x2.  It never issues a          *)
(* read_data, and when the first poll's ten reads all miss 0x21 the call   *)
(* has ended with Timeout after those ten reads.                           *)
(* the log is the skeleton with a reads in the first poll and b in the second *)
StubShape(a, b) ==
    LET n == 3 + a + b
        IsRead(i) == log[i].kind = "read" /\ log[i].reg = "InterruptStatus"
                        /\ log[i].res = "Ok"
    IN  /\ Len(log) = n + 1
        /\ log[1] = WriteOp("InterruptStatus", U32(\hFFFF, \hFFFF))
        /\ log[2] = WriteOp("Argument", args.page_number)
        /\ log[3] = WriteOp("CommandAndTransferMode", U32(0, 0))
        /\ \A i \in 4..n : IsRead(i)
        /\ \A i \in 4..(2 + a) : log[i].val # U32(0, \h21)
        /\ log[3 + a].val = U32(0, \h21)
        /\ \A i \in (4 + a)..(n - 1) : log[i].val # U32(0, \h2)
        /\ log[n].val = U32(0, \h2)
        /\ log[n + 1] = WriteOp("InterruptStatus", U32(0, \h2))

(* ten successful reads after the set-up writes, none of them 0x21 *)
FirstPollMissed ==
    /\ Len(log) >= 13
    /\ \A i \in 4..13 :
          /\ log[i].kind = "read"
          /\ log[i].res = "Ok"
          /\ log[i].val # U32(0, \h21)

C28_EraseSkeleton ==
    op = "erase_page" =>
        /\ DataReads = {}
        /\ \A i \in 1..Len(log) : log[i].kind = "read" => log[i].reg = "InterruptStatus"
        /\ (pc = "idle" /\ result = Ok) =>
              \E a \in 1..10, b \in 1..10 : StubShape(a, b)
        /\ FirstPollMissed =>
              /\ pc = "idle"
              /\ result = Timeout
              /\ Len(log) = 13

(* an erase_page whose first poll ran out *)
C28_Witness ==
    /\ op = "erase_page"
    /\ FirstPollMissed
    /\ result = Timeout
    /\ args.page_number = U32(\hFFFF, \hFE00)

----------------------------------------------------------------------------
(* C29: write_page(page_number, buffer) on a device that behaves as it did *)
(* for erase_page(page_number) issues exactly the transport operations     *)
(* erase_page issued, in the same order, and returns what erase_page       *)
(* returned, whatever the buffer holds; the payload is never sent.         *)
AfterErase == op = "write_page" /\ "erased" \in DOMAIN args

C29_WriteLikeErase ==
    AfterErase =>
        /\ Len(log) <= Len(args.erased.log)
        /\ \A i \in 1..Len(log) : log[i] = args.erased.log[i]
        /\ pc = "idle" => (log = args.erased.log /\ result = args.erased.result)
        /\ pc # "idle" => (Len(log) < Len(args.erased.log) /\ ENABLED NextStubPair)
        /\ \A i \in 1..Len(log) : log[i].val # args.buffer

(* write_page of a non-zero buffer that succeeded as the erase_page did *)
C29_Witness ==
    /\ AfterErase
    /\ pc = "idle"
    /\ result = Ok
    /\ args.buffer = PageOf(7)
    /\ Len(log) = 9
    /\ args.page_number = U32(\hFFFF, \hFE00)

----------------------------------------------------------------------------
(* C30: write_register(register, data) of the FTDI, eh0 and eh1 transports *)
(* clocks out the same frame: the command 0x2 in a 2-bit field, then the   *)
(* register address in 8 bits, then the 4 bytes of data least significant  *)
(* byte first, and nothing else (in one bit order for the whole frame).    *)
WriteFrame(reg, data, order) ==
    IF order = "lsb"
    THEN LsbFirst(2, 2) \o LsbFirst(address(reg), 8) \o WireBytes(to_le_bytes(data), order)
    ELSE MsbFirst(2, 2) \o MsbFirst(address(reg), 8) \o WireBytes(to_le_bytes(data), order)

C30_SameWriteFrame ==
    op = "write_register_frame" =>
        \E order \in BitOrders :
            result.value = WriteFrame(args.register, args.data, order)

----------------------------------------------------------------------------
(* C31: set_data_bits_single(current, target, high) with exactly one bit   *)
(* in target returns current with that bit set when high and cleared when  *)
(* not, every other bit as in current; with no bit or more than one bit in *)
(* target it returns the error InvalidPinMask.                             *)
C31_SetDataBitsSingle ==
    op = "set_data_bits_single" =>
        IF \E b \in 0..7 : args.target_bits = {b}
        THEN /\ result.kind = "Ok"
             /\ result.value \in SpiPin
             /\ \A b \in 0..7 :
                   IF b \in args.target_bits
                   THEN (b \in result.value) <=> args.high
                   ELSE (b \in result.value) <=> (b \in args.current_bits)
        ELSE result = Err("InvalidPinMask")

(* the unit test: EN_N set high on top of CLK *)
C31_Witness ==
    /\ op = "set_data_bits_single"
    /\ args = [current_bits |-> {0}, target_bits |-> {5}, high |-> TRUE]
    /\ result = OkValue({0, 5})
    /\ pin_bits(result.value) = \h21

----------------------------------------------------------------------------
(* C32: in the FTDI transport set_chip_select(a) drives SS_N to level      *)
(* not-a, set_reset(a) drives RST_N to not-a and set_enable(e) drives EN_N *)
(* to not-e; the value driven has every other pin bit as it was read at    *)
(* the start of the call.                                                  *)
PinCalls == {"set_chip_select", "set_reset", "set_enable"}

LineOf(name) ==
    CASE name = "set_chip_select" -> 3
      [] name = "set_reset" -> 7
      [] name = "set_enable" -> 5

PinCallOk == op \in PinCalls /\ pc = "idle" /\ result = Ok

C32_ActiveLowPins ==
    PinCallOk =>
        /\ Len(log) = 2
        /\ log[1].kind = "gpio_lower"
        /\ log[2].kind = "set_gpio_lower"
        /\ (LineOf(op) \in log[2].val) <=> ~args.logical
        /\ (LineOf(op) \in backend.pins) <=> ~args.logical
        /\ \A b \in (0..7) \ {LineOf(op)} :
              /\ (b \in log[2].val) <=> (b \in log[1].val)
              /\ (b \in backend.pins) <=> (b \in log[1].val)

(* set_enable(true) pulled EN_N low and left MISO, SS_N and RST_N high *)
C32_Witness ==
    /\ PinCallOk
    /\ op = "set_enable"
    /\ args.logical
    /\ log[1].val = {2, 3, 5, 7}
    /\ backend.pins = {2, 3, 7}

----------------------------------------------------------------------------
(* C33: in the dump loop of emmc_cli, read_page is called only after       *)
(* init() returned Ok (File::create and write_all run only after it, and   *)
(* a read_page starts only from one of these having returned Ok); once a   *)
(* read_page has returned an error the program takes no further step, and  *)
(* the file holds exactly the pages read before the failed one.            *)
ReadPageFailed == op = "read_page" /\ pc = "idle" /\ result.kind # "Ok"

ReadPageStarts == op' = "read_page" /\ op # "read_page"

C33_Inv ==
    /\ op \in {"File::create", "write_all", "read_page"} => initialized
    /\ op = "read_page" =>
          /\ args.page_number = DumpPageNum(Len(args.file))
          /\ before \in Pages

C33_DumpLoop ==
    /\ []C33_Inv
    /\ [][/\ ReadPageStarts =>
                /\ op \in {"File::create", "write_all"}
                /\ result = Ok
                /\ initialized
          /\ op' = "File::create" /\ op # "File::create" => op = "init" /\ result = Ok
          /\ op' = "write_all" /\ op # "write_all" => op = "read_page" /\ result = Ok
          /\ ReadPageFailed => UNCHANGED vars
          /\ ReadPageFailed' => args'.file = args.file]_vars

(* the second read_page failed after one page had been written *)
C33_Witness ==
    /\ ReadPageFailed
    /\ result = Timeout
    /\ args.page_number = DumpPageNum(1)
    /\ Len(args.file) = 1
    /\ initialized

----------------------------------------------------------------------------
(* C34: the initialized flag is monotonic.  No step of any driver          *)
(* operation, successful or failing, changes initialized from TRUE to      *)
(* FALSE, and the only step that changes it at all is the last statement   *)
(* of a successful init().                                                 *)
C34_InitializedMonotonic ==
    [][/\ initialized => initialized'
       /\ initialized' # initialized =>
             /\ op = "init"
             /\ pc = "set_initialized"
             /\ result' = Ok]_vars

(* an initialized reader whose erase_page timed out is still initialized *)
C34_Witness ==
    /\ initialized
    /\ op = "erase_page"
    /\ pc = "idle"
    /\ result = Timeout

----------------------------------------------------------------------------
(* C35: on the loopback transport (a read returns the last value written   *)
(* to the register, 0 if never written) init() passes sanity_check and     *)
(* then stops in init_sequence at its second read of Command, which        *)
(* returns the 0x1 just written where 0x3 is asserted; init does not       *)
(* return Ok and initialized stays FALSE.                                  *)
LoopbackInitLog ==
    << Entry("initialize", "-", NoVal, "Ok"),
       WriteOp("InitCommand", U32(0, 3)) >>
    \o SanityTrips
    \o << ReadOp("Command", U32(0, 0)),
          WriteOp("Command", U32(0, 1)),
          ReadOp("Command", U32(0, 1)) >>

C35_LoopbackInitStops ==
    /\ IsMock => ~initialized
    /\ IsMock /\ op = "init" /\ pc = "idle" =>
          /\ result = Panic
          /\ log = LoopbackInitLog
          /\ InitScriptA[3] = R("Command", 0, \h3)
          /\ backend.initialized

(* init on the mock after a direct write of 0xDEADBEEF to InterruptStatus *)
C35_Witness ==
    /\ IsMock
    /\ op = "init"
    /\ pc = "idle"
    /\ result = Panic
    /\ log[Len(log)] = ReadOp("Command", U32(0, 1))
    /\ log[Len(log) - 1] = WriteOp("Command", U32(0, 1))
    /\ <<address("InterruptStatus"), U32(\hDEAD, \hBEEF)>> \in backend.registers
    /\ ~initialized

----------------------------------------------------------------------------
(* C36: step 4 of read_page needs exactly 0x21.  When every read of        *)
(* InterruptStatus returns 0x20 and no transport operation fails,          *)
(* read_page returns Timeout after its 3 writes and exactly 10 reads, and  *)
(* issues neither the DATA_READY acknowledge write nor a read_data.        *)
EveryReadIsDataReady ==
    /\ \A i \in 1..Len(log) : log[i].res = "Ok"
    /\ \A i \in 1..Len(log) :
          log[i].kind = "read" =>
              log[i].reg = "InterruptStatus" /\ log[i].val = DATA_READY

C36_DataReadyOnlyTimesOut ==
    op = "read_page" /\ EveryReadIsDataReady =>
        /\ pc \in {"idle", "rp_status_clear", "rp_set_argument",
                   "rp_transfer_config", "poll"}
        /\ pc = "poll" => poll.value = CMD_ACCEPTED
        /\ \A i \in 1..Len(log) :
              /\ log[i].kind # "read_data"
              /\ i > 3 => log[i].kind = "read"
        /\ pc = "idle" =>
              /\ result = Timeout
              /\ Len(log) = 3 + 10
              /\ \A i \in 1..3 : log[i].kind = "write"
              /\ log[1] = WriteOp("InterruptStatus", STATUS_CLEAR)
              /\ log[2] = WriteOp("Argument", args.page_number)
              /\ log[3] = WriteOp("CommandAndTransferMode", PAGE_READ)
              /\ \A i \in 4..13 : log[i] = ReadOp("InterruptStatus", U32(0, \h0020))

(* page 0xFFFFFE00 timed out on ten reads of 0x20 *)
C36_Witness ==
    /\ op = "read_page"
    /\ pc = "idle"
    /\ args.page_number = U32(\hFFFF, \hFE00)
    /\ result = Timeout
    /\ Len(log) = 13
    /\ EveryReadIsDataReady
    /\ buffer = before

----------------------------------------------------------------------------
(* C37: in the register traffic of init_sequence every write to            *)
(* CommandAndTransferMode comes directly after a write to Argument, and    *)
(* between a write to CommandAndTransferMode and the next write to         *)
(* Argument or CommandAndTransferMode there is at least one read of        *)
(* InterruptStatus and at least one write to InterruptStatus.              *)
IsWriteTo(e, reg) == e.kind = "write" /\ e.reg = reg

CommandWrites == {i \in 1..Len(log) : IsWriteTo(log[i], "CommandAndTransferMode")}

NextCommandSetup(i) ==
    {j \in (i + 1)..Len(log) :
        IsWriteTo(log[j], "Argument") \/ IsWriteTo(log[j], "CommandAndTransferMode")}

C37_CommandFraming ==
    op = "init" =>
        \A i \in CommandWrites :
            /\ i > 1
            /\ IsWriteTo(log[i - 1], "Argument")
            /\ log[i - 1].res = "Ok"
            /\ \A j \in NextCommandSetup(i) :
                  /\ \E k \in (i + 1)..(j - 1) :
                        log[k].kind = "read" /\ log[k].reg = "InterruptStatus"
                  /\ \E k \in (i + 1)..(j - 1) :
                        IsWriteTo(log[k], "InterruptStatus")

(* a successful init: one command in the first script, one per training    *)
(* iteration and six in the last script                                    *)
C37_Witness ==
    /\ op = "init"
    /\ pc = "idle"
    /\ result = Ok
    /\ Cardinality(CommandWrites) >= 1 + 2 + 6
    /\ \A i \in CommandWrites : NextCommandSetup(i) # {} \/ i = Len(log) - 17

----------------------------------------------------------------------------
(* C38: for the Isd9160 flash reader 0 <= position <= FLASH_SIZE holds     *)
(* after any sequence of seek and read calls; a seek that returns an       *)
(* error leaves position unchanged; a read at position = FLASH_SIZE        *)
(* returns 0 without any I2C transfer.                                     *)
PositionInFlash == WLe(N(0), position) /\ WLe(position, N(FLASH_SIZE))

C38_PositionBounded ==
    /\ [](IsIsd => PositionInFlash)
    /\ [][/\ op' = "seek" /\ pc = "idle" /\ result'.kind # "Ok" =>
                position' = position
          /\ op' = "seek" /\ pc = "idle" /\ result'.kind = "Ok" =>
                result'.value = position'
          /\ op' = "read" /\ pc = "idle" /\ position = N(FLASH_SIZE) =>
                /\ pc' = "idle"
                /\ result' = OkValue(0)
                /\ log' = <<>>
                /\ position' = position]_vars

(* a read of a quarter of the flash at the end of the flash *)
C38_Witness ==
    /\ IsIsd
    /\ op = "read"
    /\ pc = "idle"
    /\ args.start = N(FLASH_SIZE)
    /\ args.buf_len = QuarterFlash
    /\ result = OkValue(0)
    /\ log = <<>>

----------------------------------------------------------------------------
(* C39: Isd9160::read terminates for every buffer length and every chunk   *)
(* size that set_chunk_size can set, 0 included: a read that has entered   *)
(* its loop eventually returns.                                            *)
InReadLoop == op = "read" /\ pc \in {"read_loop", "read_data"}

C39_ReadTerminates == InReadLoop ~> pc = "idle"

(* with a chunk size above 0 the loop is left *)
ReadTerminatesForPositiveChunk ==
    (InReadLoop /\ read_chunk_size > 0) ~> pc = "idle"

(* a read that returns has read min(buf.len(), FLASH_SIZE - position)      *)
(* bytes and advanced position by that number                              *)
ReadReturnsClampedLength ==
    IsIsd /\ op = "read" /\ pc = "idle" /\ result.kind = "Ok" =>
        /\ result.value = min(args.buf_len, FLASH_SIZE - args.start.d)
        /\ position = WAdd(args.start, N(result.value))

============================================================================
